---- MODULE Spec2Model ----
(***************************************************************************)
(* The execution engine of the blang bytecode virtual machine: the value   *)
(* stack, the call frames, the heap of objects, the open-upvalue list, the *)
(* native callables and the dispatch loop of run().                        *)
(***************************************************************************)
EXTENDS Integers, Sequences, FiniteSets, TLC

VARIABLES vm, ip, pc, result, stderr, stdout, runs, hist

vars == <<vm, ip, pc, result, stderr, stdout, runs, hist>>

FRAMES_MAX == 64
STACK_MAX == 256

\* The host calls interpret() at most MaxRuns times.
MaxRuns == 2

NULL == 0

(***************************************************************************)
(* Values: the tagged union of value.h (nil, bool, number, object).        *)
(* The payload v is 0 for nil, 0 or 1 for a bool, the number itself for a  *)
(* number and the address of the object for an object reference.  A       *)
(* number is a double; the doubles of the model are the multiples of one   *)
(* half, the double d being written as the integer 2 * d, so that sums,    *)
(* negations and comparisons of doubles are those of the integers.         *)
(***************************************************************************)
\* (double)n for an int n, and the conversion (int)d of a double to int,
\* which discards the fractional part (the doubles of the model lie far
\* inside the range of int).
FromInt(n) == 2 * n
ToInt(d) == IF d >= 0 THEN d \div 2 ELSE -((-d) \div 2)

NIL_VAL == [t |-> "nil", v |-> 0]
BOOL_VAL(b) == [t |-> "bool", v |-> IF b THEN 1 ELSE 0]
NUMBER_VAL(n) == [t |-> "num", v |-> n]
OBJ_VAL(o) == [t |-> "obj", v |-> o]

IS_NIL(value) == value.t = "nil"
IS_BOOL(value) == value.t = "bool"
IS_NUMBER(value) == value.t = "num"
IS_OBJ(value) == value.t = "obj"
AS_BOOL(value) == value.v = 1
AS_NUMBER(value) == value.v
AS_OBJ(value) == value.v

\* isObjType of object.h, reading the type tag of the object in memory m.
isObjType(m, value, type) == IS_OBJ(value) /\ m.heap[AS_OBJ(value)].type = type
IS_CLOSURE(m, value) == isObjType(m, value, "OBJ_CLOSURE")
IS_LIST(m, value) == isObjType(m, value, "OBJ_LIST")
IS_NATIVE(m, value) == isObjType(m, value, "OBJ_NATIVE")
IS_STRING(m, value) == isObjType(m, value, "OBJ_STRING")

valuesEqual(a, b) == a.t = b.t /\ a.v = b.v

(***************************************************************************)
(* The heap.  vm.heap[o] is the object at address o (addresses are 1, 2,   *)
(* ... in allocation order, NULL is 0); vm.objects is the head of the      *)
(* intrusive list of all objects, linked by the header field obj.next,     *)
(* written obj_next (an upvalue has a next field of its own).              *)
(***************************************************************************)
\* Faulty variant of allocateObject: the head of the object list is not
\* moved to the new object.
allocateObject_headKept(m, type, body) ==
    LET o == Len(m.heap) + 1
        hdr == [type |-> type, isMarked |-> FALSE, obj_next |-> m.objects]
    IN [m |-> [m EXCEPT !.heap = Append(@, hdr @@ body)], ret |-> o]

allocateObject(m, type, body) ==
    LET o == Len(m.heap) + 1
        hdr == [type |-> type, isMarked |-> FALSE, obj_next |-> m.objects]
    IN [m |-> [m EXCEPT !.heap = Append(@, hdr @@ body), !.objects = o],
        ret |-> o]

\* A location is a pointer to a Value: a slot of vm.stack or the closed
\* field of the upvalue at address i.
StackSlot(i) == [seg |-> "stack", i |-> i]
ClosedField(o) == [seg |-> "closed", i |-> o]

newUpvalue(m, slot) ==
    allocateObject(m, "OBJ_UPVALUE",
        [closed |-> NIL_VAL, location |-> StackSlot(slot), next |-> NULL])

newClosure(m, function) ==
    allocateObject(m, "OBJ_CLOSURE",
        [function |-> function,
         upvalues |-> [i \in 1..m.heap[function].upvalueCount |-> NULL],
         upvalueCount |-> m.heap[function].upvalueCount])

newNative(m, function, arity) ==
    allocateObject(m, "OBJ_NATIVE", [function |-> function, arity |-> arity])

newList(m) ==
    allocateObject(m, "OBJ_LIST",
        [items |-> <<>>, count |-> 0, capacity |-> 0])

\* The intern table vm.strings holds the addresses of the canonical strings.
tableFindString(m, chars) ==
    LET hit == {o \in m.strings : m.heap[o].chars = chars}
    IN IF hit = {} THEN NULL ELSE CHOOSE o \in hit : TRUE

\* Faulty variant of makeString: the intern table is not consulted.
makeString_noLookup(m, chars, ownsChars) ==
    LET a == allocateObject(m, "OBJ_STRING",
                 [length |-> Len(chars), chars |-> chars,
                  ownsChars |-> ownsChars])
    IN [m |-> [a.m EXCEPT !.strings = @ \cup {a.ret}], ret |-> a.ret]

makeString(m, chars, ownsChars) ==
    LET interned == tableFindString(m, chars)
        a == allocateObject(m, "OBJ_STRING",
                 [length |-> Len(chars), chars |-> chars,
                  ownsChars |-> ownsChars])
    IN IF interned # NULL
       THEN [m |-> m, ret |-> interned]
       ELSE [m |-> [a.m EXCEPT !.strings = @ \cup {a.ret}], ret |-> a.ret]

copyString(m, chars) == makeString(m, chars, TRUE)

takeString(m, chars) == makeString(m, chars, TRUE)

(***************************************************************************)
(* The value stack.  vm.stack is the array Value stack[STACK_MAX], indexed *)
(* 0..STACK_MAX-1, and vm.stackTop the index the cursor points at.  Slots  *)
(* at and above the cursor keep what was last written there.  push has no  *)
(* bounds check: a push with the cursor at STACK_MAX writes outside the    *)
(* array, which is undefined behaviour; vm.undefined records that it has   *)
(* happened, and nothing is modelled after it.                             *)
(***************************************************************************)
push(m, value) ==
    IF m.stackTop < STACK_MAX
    THEN [m EXCEPT !.stack[m.stackTop] = value, !.stackTop = @ + 1]
    ELSE [m EXCEPT !.stackTop = @ + 1, !.undefined = TRUE]

\* pop() retreats the cursor; popped(m) is the value it returns.
pop(m) == [m EXCEPT !.stackTop = @ - 1]
popped(m) == m.stack[m.stackTop - 1]

peek(m, distance) == m.stack[m.stackTop - 1 - distance]

resetStack(m) ==
    [m EXCEPT !.stackTop = 0, !.frameCount = 0, !.openUpvalues = NULL]

\* *location and *location = value.
Deref(m, location) ==
    IF location.seg = "stack" THEN m.stack[location.i]
    ELSE m.heap[location.i].closed

Store(m, location, value) ==
    IF location.seg = "stack" THEN [m EXCEPT !.stack[location.i] = value]
    ELSE [m EXCEPT !.heap[location.i].closed = value]

(***************************************************************************)
(* runtimeError: the message and the call-stack trace go to stderr, then   *)
(* the stack is reset.  getLine reads the chunk's line table.  A line of   *)
(* the trace is "[<line>] in <name>", <line> being "line L", "invalid      *)
(* line" or "unknown line".                                                *)
(***************************************************************************)
getLine(chunk, instruction) == chunk.lines[instruction + 1]

TraceLine(m, i) ==
    LET frame == m.frames[i]
        function == m.heap[m.heap[frame.closure].function]
        instruction == frame.ip - 1
    IN [line |-> IF frame.ip >= 0   \* ip != NULL && ip >= chunk.code
                 THEN IF instruction >= 0 /\ instruction < Len(function.chunk.code)
                      THEN "line " \o ToString(getLine(function.chunk,
                                                        instruction))
                      ELSE "invalid line"
                 ELSE "unknown line",
        name |-> IF function.name = NULL THEN "script"
                 ELSE m.heap[function.name].chars]

runtimeError(m, format, args) ==
    [m |-> resetStack(m),
     report |-> [format |-> format, args |-> args,
                 trace |-> IF m.frameCount > 0 /\ m.frameCount <= FRAMES_MAX
                           THEN [k \in 1..m.frameCount |->
                                    TraceLine(m, m.frameCount - k)]
                           ELSE <<"Stack corrupted or invalid.">>]]

(***************************************************************************)
(* Lists.                                                                  *)
(***************************************************************************)
\* memory.h: the growth policy of dynamic arrays.
GROW_CAPACITY(capacity) == IF capacity < 8 THEN 8 ELSE capacity * 2

\* What realloc leaves in the new slots of a grown array.
Uninitialized == [t |-> "uninit", v |-> 0]

\* Faulty variant of appendToList: the array is grown one append early.
appendToList_growEarly(m, list, value) ==
    LET l == m.heap[list]
        capacity == IF l.capacity <= l.count + 1
                    THEN GROW_CAPACITY(l.capacity) ELSE l.capacity
        items == [i \in 1..capacity |->
                     IF i <= Len(l.items) THEN l.items[i] ELSE Uninitialized]
    IN [m EXCEPT !.heap[list].capacity = capacity,
                 !.heap[list].items = [items EXCEPT ![l.count + 1] = value],
                 !.heap[list].count = l.count + 1]

appendToList(m, list, value) ==
    LET l == m.heap[list]
        capacity == IF l.capacity < l.count + 1
                    THEN GROW_CAPACITY(l.capacity) ELSE l.capacity
        items == [i \in 1..capacity |->
                     IF i <= Len(l.items) THEN l.items[i] ELSE Uninitialized]
    IN [m EXCEPT !.heap[list].capacity = capacity,
                 !.heap[list].items = [items EXCEPT ![l.count + 1] = value],
                 !.heap[list].count = l.count + 1]

storeToList(m, list, index, value) ==
    [m EXCEPT !.heap[list].items[index + 1] = value]

indexFromList(m, list, index) == m.heap[list].items[index + 1]

deleteFromList(m, list, index) ==
    LET l == m.heap[list]
    IN [m EXCEPT !.heap[list].items =
                     [i \in 1..Len(l.items) |->
                         IF i - 1 >= index /\ i - 1 < l.count - 1
                         THEN l.items[i + 1]
                         ELSE IF i - 1 = l.count - 1 THEN NIL_VAL
                         ELSE l.items[i]],
                 !.heap[list].count = l.count - 1]

isValidListIndex(m, list, index) ==
    ~(index < 0 \/ index > m.heap[list].count - 1)

(***************************************************************************)
(* The native callables.  Each takes (argCount, args), args being the      *)
(* index of the first argument's stack slot, and yields a NativeResult;    *)
(* out is what it printed.  env is what the host environment answers: the  *)
(* process clock and the file system.                                      *)
(***************************************************************************)
NATIVE_SUCCESS(m, value) ==
    [m |-> m, isError |-> FALSE, result |-> value, out |-> <<>>]

NATIVE_ERROR(m, message) ==
    LET c == copyString(m, message)
    IN [m |-> c.m, isError |-> TRUE, result |-> OBJ_VAL(c.ret), out |-> <<>>]

clockNative(m, argCount, args, env) == NATIVE_SUCCESS(m, NUMBER_VAL(env.clock))

readFileNative(m, argCount, args, env) ==
    IF argCount # 1
    THEN NATIVE_ERROR(m, "readFile() takes exactly 1 argument.")
    ELSE IF ~IS_STRING(m, m.stack[args])
    THEN NATIVE_ERROR(m, "Argument to readFile() must be a string.")
    ELSE IF ~env.fileExists
    THEN NATIVE_ERROR(m, "Failed to open file.")
    ELSE LET c == copyString(m, env.fileContent)
         IN NATIVE_SUCCESS(c.m, OBJ_VAL(c.ret))

printlnNative(m, argCount, args, env) ==
    [NATIVE_SUCCESS(m, NIL_VAL) EXCEPT
        !.out = << [i \in 1..argCount |-> m.stack[args + i - 1]] >>]

appendNative(m, argCount, args, env) ==
    IF argCount # 2 \/ ~IS_LIST(m, m.stack[args])
    THEN NATIVE_ERROR(m, "append() takes exactly 2 arguments.")
    ELSE NATIVE_SUCCESS(
             appendToList(m, AS_OBJ(m.stack[args]), m.stack[args + 1]),
             NIL_VAL)

deleteNative(m, argCount, args, env) ==
    IF argCount # 2 \/ ~IS_LIST(m, m.stack[args])
                    \/ ~IS_NUMBER(m.stack[args + 1])
    THEN NATIVE_ERROR(m, "delete() takes a list and an index as arguments")
    ELSE LET list == AS_OBJ(m.stack[args])
             index == ToInt(AS_NUMBER(m.stack[args + 1]))
         IN IF ~isValidListIndex(m, list, index)
            THEN NATIVE_ERROR(m, "Index out of bounds")
            ELSE NATIVE_SUCCESS(deleteFromList(m, list, index), NIL_VAL)

\* native->function(argCount, args): the call through the function pointer.
invokeNative(m, function, argCount, args, env) ==
    CASE function = "clockNative" -> clockNative(m, argCount, args, env)
      [] function = "readFileNative" -> readFileNative(m, argCount, args, env)
      [] function = "printlnNative" -> printlnNative(m, argCount, args, env)
      [] function = "appendNative" -> appendNative(m, argCount, args, env)
      [] function = "deleteNative" -> deleteNative(m, argCount, args, env)

(***************************************************************************)
(* Calls.  call and callValue yield the machine after the call, whether    *)
(* the call succeeded, the reports written to stderr and the lines written *)
(* to stdout.                                                              *)
(***************************************************************************)
Failed(e) == [m |-> e.m, ok |-> FALSE, reports |-> <<e.report>>, out |-> <<>>]

\* Faulty variant of call: the frame-overflow test is off by one.
call_early(m, closure, argCount) ==
    LET function == m.heap[m.heap[closure].function]
    IN IF argCount # function.arity
       THEN Failed(runtimeError(m, "Expected %d arguments but got %d.",
                                <<function.arity, argCount>>))
       ELSE IF m.frameCount >= FRAMES_MAX - 1
       THEN Failed(runtimeError(m, "Stack overflow.", <<>>))
       ELSE [m |-> [m EXCEPT !.frames[m.frameCount] =
                                 [closure |-> closure, ip |-> 0,
                                  slots |-> m.stackTop - argCount - 1],
                             !.frameCount = @ + 1],
             ok |-> TRUE, reports |-> <<>>, out |-> <<>>]

\* Faulty variant of call: the arity test is missing.
call_anyArity(m, closure, argCount) ==
    IF m.frameCount = FRAMES_MAX
    THEN Failed(runtimeError(m, "Stack overflow.", <<>>))
    ELSE [m |-> [m EXCEPT !.frames[m.frameCount] =
                              [closure |-> closure, ip |-> 0,
                               slots |-> m.stackTop - argCount - 1],
                          !.frameCount = @ + 1],
          ok |-> TRUE, reports |-> <<>>, out |-> <<>>]

\* Faulty variant of call: the frame is based at the first argument, one
\* slot above the callee.
call_baseAtArgs(m, closure, argCount) ==
    LET function == m.heap[m.heap[closure].function]
    IN IF argCount # function.arity
       THEN Failed(runtimeError(m, "Expected %d arguments but got %d.",
                                <<function.arity, argCount>>))
       ELSE IF m.frameCount = FRAMES_MAX
       THEN Failed(runtimeError(m, "Stack overflow.", <<>>))
       ELSE [m |-> [m EXCEPT !.frames[m.frameCount] =
                                 [closure |-> closure, ip |-> 0,
                                  slots |-> m.stackTop - argCount],
                             !.frameCount = @ + 1],
             ok |-> TRUE, reports |-> <<>>, out |-> <<>>]

call(m, closure, argCount) ==
    LET function == m.heap[m.heap[closure].function]
    IN IF argCount # function.arity
       THEN Failed(runtimeError(m, "Expected %d arguments but got %d.",
                                <<function.arity, argCount>>))
       ELSE IF m.frameCount = FRAMES_MAX
       THEN Failed(runtimeError(m, "Stack overflow.", <<>>))
       ELSE [m |-> [m EXCEPT !.frames[m.frameCount] =
                                 [closure |-> closure, ip |-> 0,
                                  slots |-> m.stackTop - argCount - 1],
                             !.frameCount = @ + 1],
             ok |-> TRUE, reports |-> <<>>, out |-> <<>>]

\* Faulty variant of callValue: the native gets stackTop - argCount - 1,
\* the callee's slot, as args.
callValue_calleeSlot(m, callee, argCount, env) ==
    IF ~IS_OBJ(callee)
    THEN Failed(runtimeError(m, "Can only call functions and classes.", <<>>))
    ELSE LET obj == m.heap[AS_OBJ(callee)]
         IN IF obj.type = "OBJ_CLOSURE"
            THEN call(m, AS_OBJ(callee), argCount)
            ELSE IF obj.type = "OBJ_NATIVE"
            THEN IF obj.arity # -1 /\ obj.arity # argCount
                 THEN Failed(runtimeError(m, "Expected %d arguments but got %d.",
                                          <<obj.arity, argCount>>))
                 ELSE LET r == invokeNative(m, obj.function, argCount,
                                            m.stackTop - argCount - 1, env)
                      IN IF r.isError
                         THEN Failed(runtimeError(r.m, "Native error: %s",
                                   <<r.m.heap[AS_OBJ(r.result)].chars>>))
                         ELSE [m |-> [r.m EXCEPT
                                        !.stack[r.m.stackTop - argCount - 1] =
                                            r.result,
                                        !.stackTop = @ - argCount],
                               ok |-> TRUE, reports |-> <<>>, out |-> r.out]
            ELSE Failed(runtimeError(m, "Can only call functions and classes.",
                                     <<>>))

callValue(m, callee, argCount, env) ==
    IF ~IS_OBJ(callee)
    THEN Failed(runtimeError(m, "Can only call functions and classes.", <<>>))
    ELSE LET obj == m.heap[AS_OBJ(callee)]
         IN IF obj.type = "OBJ_CLOSURE"
            THEN call(m, AS_OBJ(callee), argCount)
            ELSE IF obj.type = "OBJ_NATIVE"
            THEN IF obj.arity # -1 /\ obj.arity # argCount
                 THEN Failed(runtimeError(m, "Expected %d arguments but got %d.",
                                          <<obj.arity, argCount>>))
                 ELSE LET r == invokeNative(m, obj.function, argCount,
                                            m.stackTop - argCount, env)
                      IN IF r.isError
                         THEN Failed(runtimeError(r.m, "Native error: %s",
                                   <<r.m.heap[AS_OBJ(r.result)].chars>>))
                         ELSE [m |-> [r.m EXCEPT
                                        !.stack[r.m.stackTop - argCount - 1] =
                                            r.result,
                                        !.stackTop = @ - argCount],
                               ok |-> TRUE, reports |-> <<>>, out |-> r.out]
            ELSE Failed(runtimeError(m, "Can only call functions and classes.",
                                     <<>>))

(***************************************************************************)
(* Upvalues.  vm.openUpvalues heads the list of open upvalues, linked by   *)
(* their next fields.                                                      *)
(***************************************************************************)
\* location > local and location >= last, for a location in the stack.
Above(location, local) == location.seg = "stack" /\ location.i > local
AtOrAbove(location, last) == location.seg = "stack" /\ location.i >= last

\* The while loop of captureUpvalue: the pair (prevUpvalue, upvalue) it ends with.
RECURSIVE walkOpenUpvalues(_, _, _, _)
walkOpenUpvalues(m, local, prevUpvalue, upvalue) ==
    IF upvalue # NULL /\ Above(m.heap[upvalue].location, local)
    THEN walkOpenUpvalues(m, local, upvalue, m.heap[upvalue].next)
    ELSE [prevUpvalue |-> prevUpvalue, upvalue |-> upvalue]

\* Faulty variant of captureUpvalue: a new upvalue is linked at the head of
\* the list, wherever its slot lies.
captureUpvalue_head(m, local) ==
    LET w == walkOpenUpvalues(m, local, NULL, m.openUpvalues)
        a == newUpvalue(m, local)
        createdUpvalue == a.ret
    IN IF w.upvalue # NULL /\ m.heap[w.upvalue].location = StackSlot(local)
       THEN [m |-> m, ret |-> w.upvalue]
       ELSE [m |-> [a.m EXCEPT !.heap[createdUpvalue].next = m.openUpvalues,
                               !.openUpvalues = createdUpvalue],
             ret |-> createdUpvalue]

\* Faulty variant of captureUpvalue: the test for an upvalue that already
\* points at the slot is missing.
captureUpvalue_fresh(m, local) ==
    LET w == walkOpenUpvalues(m, local, NULL, m.openUpvalues)
        a == newUpvalue(m, local)
        createdUpvalue == a.ret
        linked == [a.m EXCEPT !.heap[createdUpvalue].next = w.upvalue]
    IN IF w.prevUpvalue = NULL
       THEN [m |-> [linked EXCEPT !.openUpvalues = createdUpvalue],
             ret |-> createdUpvalue]
       ELSE [m |-> [linked EXCEPT !.heap[w.prevUpvalue].next = createdUpvalue],
             ret |-> createdUpvalue]

captureUpvalue(m, local) ==
    LET w == walkOpenUpvalues(m, local, NULL, m.openUpvalues)
        a == newUpvalue(m, local)
        createdUpvalue == a.ret
        linked == [a.m EXCEPT !.heap[createdUpvalue].next = w.upvalue]
    IN IF w.upvalue # NULL /\ m.heap[w.upvalue].location = StackSlot(local)
       THEN [m |-> m, ret |-> w.upvalue]
       ELSE IF w.prevUpvalue = NULL
       THEN [m |-> [linked EXCEPT !.openUpvalues = createdUpvalue],
             ret |-> createdUpvalue]
       ELSE [m |-> [linked EXCEPT !.heap[w.prevUpvalue].next = createdUpvalue],
             ret |-> createdUpvalue]

\* Faulty variant of closeUpvalues: the loop tests location > last.
RECURSIVE closeUpvalues_above(_, _)
closeUpvalues_above(m, last) ==
    IF m.openUpvalues # NULL /\ Above(m.heap[m.openUpvalues].location, last)
    THEN LET upvalue == m.openUpvalues
         IN closeUpvalues_above(
                [m EXCEPT !.heap[upvalue].closed =
                              Deref(m, m.heap[upvalue].location),
                          !.heap[upvalue].location = ClosedField(upvalue),
                          !.openUpvalues = m.heap[upvalue].next],
                last)
    ELSE m

\* Faulty variant of closeUpvalues: the last upvalue of the list is closed
\* but stays the head of the list.
RECURSIVE closeUpvalues_lastLinked(_, _)
closeUpvalues_lastLinked(m, last) ==
    IF m.openUpvalues # NULL /\ AtOrAbove(m.heap[m.openUpvalues].location, last)
    THEN LET upvalue == m.openUpvalues
             closed == [m EXCEPT !.heap[upvalue].closed =
                                     Deref(m, m.heap[upvalue].location),
                                 !.heap[upvalue].location = ClosedField(upvalue)]
         IN IF m.heap[upvalue].next = NULL THEN closed
            ELSE closeUpvalues_lastLinked(
                     [closed EXCEPT !.openUpvalues = m.heap[upvalue].next],
                     last)
    ELSE m

RECURSIVE closeUpvalues(_, _)
closeUpvalues(m, last) ==
    IF m.openUpvalues # NULL /\ AtOrAbove(m.heap[m.openUpvalues].location, last)
    THEN LET upvalue == m.openUpvalues
         IN closeUpvalues(
                [m EXCEPT !.heap[upvalue].closed =
                              Deref(m, m.heap[upvalue].location),
                          !.heap[upvalue].location = ClosedField(upvalue),
                          !.openUpvalues = m.heap[upvalue].next],
                last)
    ELSE m

\* Faulty variant of isFalsey: the number 0 counts as false.
isFalsey_zero(value) ==
    \/ IS_NIL(value) \/ (IS_BOOL(value) /\ ~AS_BOOL(value))
    \/ (IS_NUMBER(value) /\ AS_NUMBER(value) = 0)

isFalsey(value) == IS_NIL(value) \/ (IS_BOOL(value) /\ ~AS_BOOL(value))

\* Faulty variant of concatenate: the operands are joined in the order
\* they are popped.
concatenate_upperFirst(m) ==
    LET b == m.heap[AS_OBJ(popped(m))]
        a == m.heap[AS_OBJ(popped(pop(m)))]
        t == takeString(pop(pop(m)), b.chars \o a.chars)
    IN push(t.m, OBJ_VAL(t.ret))

concatenate(m) ==
    LET b == m.heap[AS_OBJ(popped(m))]
        a == m.heap[AS_OBJ(popped(pop(m)))]
        t == takeString(pop(pop(m)), a.chars \o b.chars)
    IN push(t.m, OBJ_VAL(t.ret))

(***************************************************************************)
(* The globals table (table.c): a map from interned string to value.       *)
(***************************************************************************)
tableGet(table, key) ==
    IF key \in DOMAIN table THEN [found |-> TRUE, value |-> table[key]]
    ELSE [found |-> FALSE, value |-> NIL_VAL]

\* tableSet yields the table and whether the key is new.
tableSet(table, key, value) ==
    [table |-> [k \in DOMAIN table \cup {key} |->
                   IF k = key THEN value ELSE table[k]],
     isNewKey |-> key \notin DOMAIN table]

tableDelete(table, key) == [k \in DOMAIN table \ {key} |-> table[k]]

(***************************************************************************)
(* Compiled programs.  The compiler is an external collaborator; a source  *)
(* text is given here by what compile() yields for it: its functions       *)
(* (the script first), each with its constants and its instructions, an    *)
(* instruction written <<line, opcode, operand bytes...>>.                 *)
(***************************************************************************)
\* The number literal n, n an integer, and the literal of the double h / 2.
Num(n) == [k |-> "num", n |-> FromInt(n)]
Halves(h) == [k |-> "num", n |-> h]
Str(chars) == [k |-> "str", s |-> chars]
Fn(i) == [k |-> "fn", i |-> i]

RECURSIVE Bytes(_)
Bytes(instructions) ==
    LET n == Len(instructions)
    IN IF n = 0 THEN <<>>
       ELSE IF n = 1
       THEN SubSeq(instructions[1], 2, Len(instructions[1]))
       ELSE Bytes(SubSeq(instructions, 1, n \div 2))
            \o Bytes(SubSeq(instructions, n \div 2 + 1, n))

RECURSIVE Lines(_)
Lines(instructions) ==
    LET n == Len(instructions)
    IN IF n = 0 THEN <<>>
       ELSE IF n = 1
       THEN [i \in 1..(Len(instructions[1]) - 1) |-> instructions[1][1]]
       ELSE Lines(SubSeq(instructions, 1, n \div 2))
            \o Lines(SubSeq(instructions, n \div 2 + 1, n))

\* fun get() { return x; }  with x an upvalue
FnGet(line) ==
    [name |-> "get", arity |-> 0, upvalueCount |-> 1, constants |-> <<>>,
     code |-> << <<line, "OP_GET_UPVALUE", 0>>, <<line, "OP_RETURN">>,
                 <<line, "OP_NIL">>, <<line, "OP_RETURN">> >>]

\* fun set(v) { x = v; }  with x an upvalue
FnSet(line) ==
    [name |-> "set", arity |-> 1, upvalueCount |-> 1, constants |-> <<>>,
     code |-> << <<line, "OP_GET_LOCAL", 1>>, <<line, "OP_SET_UPVALUE", 0>>,
                 <<line, "OP_POP">>,
                 <<line, "OP_NIL">>, <<line, "OP_RETURN">> >>]

(* 1 fun mk() {
   2   var n = 0;
   3   fun inc() { n = n + 1; return n; }
   4   return inc; }
   5 var c = mk();                                                         *)
SrcCounter ==
    << [name |-> "", arity |-> 0, upvalueCount |-> 0,
        constants |-> <<Fn(2), Str("mk"), Str("c")>>,
        code |-> << <<4, "OP_CLOSURE", 0>>, <<4, "OP_DEFINE_GLOBAL", 1>>,
                    <<5, "OP_GET_GLOBAL", 1>>, <<5, "OP_CALL", 0>>,
                    <<5, "OP_DEFINE_GLOBAL", 2>>,
                    <<5, "OP_NIL">>, <<5, "OP_RETURN">> >>],
       [name |-> "mk", arity |-> 0, upvalueCount |-> 0,
        constants |-> <<Num(0), Fn(3)>>,
        code |-> << <<2, "OP_CONSTANT", 0>>, <<3, "OP_CLOSURE", 1, 1, 1>>,
                    <<4, "OP_GET_LOCAL", 2>>, <<4, "OP_RETURN">>,
                    <<4, "OP_NIL">>, <<4, "OP_RETURN">> >>],
       [name |-> "inc", arity |-> 0, upvalueCount |-> 1,
        constants |-> <<Num(1)>>,
        code |-> << <<3, "OP_GET_UPVALUE", 0>>, <<3, "OP_CONSTANT", 0>>,
                    <<3, "OP_ADD">>, <<3, "OP_SET_UPVALUE", 0>>,
                    <<3, "OP_POP">>, <<3, "OP_GET_UPVALUE", 0>>,
                    <<3, "OP_RETURN">>,
                    <<3, "OP_NIL">>, <<3, "OP_RETURN">> >>] >>

(* 1 if (c() == 1) { c(); }                                                *)
SrcBump ==
    << [name |-> "", arity |-> 0, upvalueCount |-> 0,
        constants |-> <<Str("c"), Num(1)>>,
        code |-> << <<1, "OP_GET_GLOBAL", 0>>, <<1, "OP_CALL", 0>>,
                    <<1, "OP_CONSTANT", 1>>, <<1, "OP_EQUAL">>,
                    <<1, "OP_JUMP_IF_FALSE", 0, 9>>, <<1, "OP_POP">>,
                    <<1, "OP_GET_GLOBAL", 0>>, <<1, "OP_CALL", 0>>,
                    <<1, "OP_POP">>, <<1, "OP_JUMP", 0, 1>>,
                    <<1, "OP_POP">>,
                    <<1, "OP_NIL">>, <<1, "OP_RETURN">> >>] >>

(* 1 var g; var s;
   2 fun pair() {
   3   var x = 10;
   4   fun get() { return x; }
   5   fun set(v) { x = v; }
   6   g = get; s = set;
   7   x = 20;
   8   set(30);
   9   return get(); }
   10 pair();                                                              *)
SrcPair ==
    << [name |-> "", arity |-> 0, upvalueCount |-> 0,
        constants |-> <<Str("g"), Str("s"), Fn(2), Str("pair")>>,
        code |-> << <<1, "OP_NIL">>, <<1, "OP_DEFINE_GLOBAL", 0>>,
                    <<1, "OP_NIL">>, <<1, "OP_DEFINE_GLOBAL", 1>>,
                    <<9, "OP_CLOSURE", 2>>, <<9, "OP_DEFINE_GLOBAL", 3>>,
                    <<10, "OP_GET_GLOBAL", 3>>, <<10, "OP_CALL", 0>>,
                    <<10, "OP_POP">>,
                    <<10, "OP_NIL">>, <<10, "OP_RETURN">> >>],
       [name |-> "pair", arity |-> 0, upvalueCount |-> 0,
        constants |-> <<Num(10), Fn(3), Fn(4), Str("g"), Str("s"),
                        Num(20), Num(30)>>,
        code |-> << <<3, "OP_CONSTANT", 0>>,
                    <<4, "OP_CLOSURE", 1, 1, 1>>,
                    <<5, "OP_CLOSURE", 2, 1, 1>>,
                    <<6, "OP_GET_LOCAL", 2>>, <<6, "OP_SET_GLOBAL", 3>>,
                    <<6, "OP_POP">>,
                    <<6, "OP_GET_LOCAL", 3>>, <<6, "OP_SET_GLOBAL", 4>>,
                    <<6, "OP_POP">>,
                    <<7, "OP_CONSTANT", 5>>, <<7, "OP_SET_LOCAL", 1>>,
                    <<7, "OP_POP">>,
                    <<8, "OP_GET_LOCAL", 3>>, <<8, "OP_CONSTANT", 6>>,
                    <<8, "OP_CALL", 1>>, <<8, "OP_POP">>,
                    <<9, "OP_GET_LOCAL", 2>>, <<9, "OP_CALL", 0>>,
                    <<9, "OP_RETURN">>,
                    <<9, "OP_NIL">>, <<9, "OP_RETURN">> >>],
       FnGet(4), FnSet(5) >>

(* 1 s(42);
   2 println(g());                                                         *)
SrcUse ==
    << [name |-> "", arity |-> 0, upvalueCount |-> 0,
        constants |-> <<Str("s"), Num(42), Str("println"), Str("g")>>,
        code |-> << <<1, "OP_GET_GLOBAL", 0>>, <<1, "OP_CONSTANT", 1>>,
                    <<1, "OP_CALL", 1>>, <<1, "OP_POP">>,
                    <<2, "OP_GET_GLOBAL", 2>>, <<2, "OP_GET_GLOBAL", 3>>,
                    <<2, "OP_CALL", 0>>, <<2, "OP_CALL", 1>>,
                    <<2, "OP_POP">>,
                    <<2, "OP_NIL">>, <<2, "OP_RETURN">> >>] >>

(* 1 var g; var s;
   2 { var x = 1; fun get() { return x; } g = get; }
   3 { var y = 2; fun set(v) { y = v; } s = set; }                         *)
SrcBlocks ==
    << [name |-> "", arity |-> 0, upvalueCount |-> 0,
        constants |-> <<Str("g"), Str("s"), Num(1), Fn(2), Num(2), Fn(3)>>,
        code |-> << <<1, "OP_NIL">>, <<1, "OP_DEFINE_GLOBAL", 0>>,
                    <<1, "OP_NIL">>, <<1, "OP_DEFINE_GLOBAL", 1>>,
                    <<2, "OP_CONSTANT", 2>>, <<2, "OP_CLOSURE", 3, 1, 1>>,
                    <<2, "OP_GET_LOCAL", 2>>, <<2, "OP_SET_GLOBAL", 0>>,
                    <<2, "OP_POP">>,
                    <<2, "OP_POP">>, <<2, "OP_CLOSE_UPVALUE">>,
                    <<3, "OP_CONSTANT", 4>>, <<3, "OP_CLOSURE", 5, 1, 1>>,
                    <<3, "OP_GET_LOCAL", 2>>, <<3, "OP_SET_GLOBAL", 1>>,
                    <<3, "OP_POP">>,
                    <<3, "OP_POP">>, <<3, "OP_CLOSE_UPVALUE">>,
                    <<3, "OP_NIL">>, <<3, "OP_RETURN">> >>],
       FnGet(2), FnSet(3) >>

(* 1 var g; var s;
   2 fun o() {
   3   var x = 1;
   4   fun get() { return x; }
   5   fun set(v) { x = v; }
   6   g = get; s = set;
   7   get(1); }
   8 o();                                                                  *)
SrcOrphan ==
    << [name |-> "", arity |-> 0, upvalueCount |-> 0,
        constants |-> <<Str("g"), Str("s"), Fn(2), Str("o")>>,
        code |-> << <<1, "OP_NIL">>, <<1, "OP_DEFINE_GLOBAL", 0>>,
                    <<1, "OP_NIL">>, <<1, "OP_DEFINE_GLOBAL", 1>>,
                    <<7, "OP_CLOSURE", 2>>, <<7, "OP_DEFINE_GLOBAL", 3>>,
                    <<8, "OP_GET_GLOBAL", 3>>, <<8, "OP_CALL", 0>>,
                    <<8, "OP_POP">>,
                    <<8, "OP_NIL">>, <<8, "OP_RETURN">> >>],
       [name |-> "o", arity |-> 0, upvalueCount |-> 0,
        constants |-> <<Num(1), Fn(3), Fn(4), Str("g"), Str("s")>>,
        code |-> << <<3, "OP_CONSTANT", 0>>,
                    <<4, "OP_CLOSURE", 1, 1, 1>>,
                    <<5, "OP_CLOSURE", 2, 1, 1>>,
                    <<6, "OP_GET_LOCAL", 2>>, <<6, "OP_SET_GLOBAL", 3>>,
                    <<6, "OP_POP">>,
                    <<6, "OP_GET_LOCAL", 3>>, <<6, "OP_SET_GLOBAL", 4>>,
                    <<6, "OP_POP">>,
                    <<7, "OP_GET_LOCAL", 2>>, <<7, "OP_CONSTANT", 0>>,
                    <<7, "OP_CALL", 1>>, <<7, "OP_POP">>,
                    <<7, "OP_NIL">>, <<7, "OP_RETURN">> >>],
       FnGet(4), FnSet(5) >>

(* 1 var g; var s;
   2 fun n() { var d = 4; fun get() { return d; } return get; }
   3 fun m() {
   4   var a = 1; var b = 2; var c = 3;
   5   fun get() { return a; }
   6   fun getc() { return c; }
   7   fun set(v) { b = v; }
   8   g = get; s = set;
   9   n();
   10  return getc; }
   11 m();                                                                 *)
SrcMulti ==
    << [name |-> "", arity |-> 0, upvalueCount |-> 0,
        constants |-> <<Str("g"), Str("s"), Fn(2), Str("n"), Fn(3),
                        Str("m")>>,
        code |-> << <<1, "OP_NIL">>, <<1, "OP_DEFINE_GLOBAL", 0>>,
                    <<1, "OP_NIL">>, <<1, "OP_DEFINE_GLOBAL", 1>>,
                    <<2, "OP_CLOSURE", 2>>, <<2, "OP_DEFINE_GLOBAL", 3>>,
                    <<10, "OP_CLOSURE", 4>>, <<10, "OP_DEFINE_GLOBAL", 5>>,
                    <<11, "OP_GET_GLOBAL", 5>>, <<11, "OP_CALL", 0>>,
                    <<11, "OP_POP">>,
                    <<11, "OP_NIL">>, <<11, "OP_RETURN">> >>],
       [name |-> "n", arity |-> 0, upvalueCount |-> 0,
        constants |-> <<Num(4), Fn(4)>>,
        code |-> << <<2, "OP_CONSTANT", 0>>, <<2, "OP_CLOSURE", 1, 1, 1>>,
                    <<2, "OP_GET_LOCAL", 2>>, <<2, "OP_RETURN">>,
                    <<2, "OP_NIL">>, <<2, "OP_RETURN">> >>],
       [name |-> "m", arity |-> 0, upvalueCount |-> 0,
        constants |-> <<Num(1), Num(2), Num(3), Fn(4), Fn(5), Fn(6),
                        Str("g"), Str("s"), Str("n")>>,
        code |-> << <<4, "OP_CONSTANT", 0>>, <<4, "OP_CONSTANT", 1>>,
                    <<4, "OP_CONSTANT", 2>>,
                    <<5, "OP_CLOSURE", 3, 1, 1>>,
                    <<6, "OP_CLOSURE", 4, 1, 3>>,
                    <<7, "OP_CLOSURE", 5, 1, 2>>,
                    <<8, "OP_GET_LOCAL", 4>>, <<8, "OP_SET_GLOBAL", 6>>,
                    <<8, "OP_POP">>,
                    <<8, "OP_GET_LOCAL", 6>>, <<8, "OP_SET_GLOBAL", 7>>,
                    <<8, "OP_POP">>,
                    <<9, "OP_GET_GLOBAL", 8>>, <<9, "OP_CALL", 0>>,
                    <<9, "OP_POP">>,
                    <<10, "OP_GET_LOCAL", 5>>, <<10, "OP_RETURN">>,
                    <<10, "OP_NIL">>, <<10, "OP_RETURN">> >>],
       FnGet(5), [FnGet(6) EXCEPT !.name = "getc"], FnSet(7) >>

(* 1 fun f() { return f(); }
   2 f();                                                                  *)
SrcDeep ==
    << [name |-> "", arity |-> 0, upvalueCount |-> 0,
        constants |-> <<Fn(2), Str("f")>>,
        code |-> << <<1, "OP_CLOSURE", 0>>, <<1, "OP_DEFINE_GLOBAL", 1>>,
                    <<2, "OP_GET_GLOBAL", 1>>, <<2, "OP_CALL", 0>>,
                    <<2, "OP_POP">>,
                    <<2, "OP_NIL">>, <<2, "OP_RETURN">> >>],
       [name |-> "f", arity |-> 0, upvalueCount |-> 0,
        constants |-> <<Str("f")>>,
        code |-> << <<1, "OP_GET_GLOBAL", 0>>, <<1, "OP_CALL", 0>>,
                    <<1, "OP_RETURN">>,
                    <<1, "OP_NIL">>, <<1, "OP_RETURN">> >>] >>

(* 1 fun r(n) {
   2   if (n == FRAMES_MAX - 2) { r(); }
   3   return r(n + 1); }
   4 r(0);
   The call r() of line 2 runs in the frame that fills the frame stack.    *)
SrcDeepArity ==
    << [name |-> "", arity |-> 0, upvalueCount |-> 0,
        constants |-> <<Fn(2), Str("r"), Num(0)>>,
        code |-> << <<3, "OP_CLOSURE", 0>>, <<3, "OP_DEFINE_GLOBAL", 1>>,
                    <<4, "OP_GET_GLOBAL", 1>>, <<4, "OP_CONSTANT", 2>>,
                    <<4, "OP_CALL", 1>>, <<4, "OP_POP">>,
                    <<4, "OP_NIL">>, <<4, "OP_RETURN">> >>],
       [name |-> "r", arity |-> 1, upvalueCount |-> 0,
        constants |-> <<Num(FRAMES_MAX - 2), Str("r"), Num(1)>>,
        code |-> << <<2, "OP_GET_LOCAL", 1>>, <<2, "OP_CONSTANT", 0>>,
                    <<2, "OP_EQUAL">>, <<2, "OP_JUMP_IF_FALSE", 0, 9>>,
                    <<2, "OP_POP">>,
                    <<2, "OP_GET_GLOBAL", 1>>, <<2, "OP_CALL", 0>>,
                    <<2, "OP_POP">>, <<2, "OP_JUMP", 0, 1>>,
                    <<2, "OP_POP">>,
                    <<3, "OP_GET_GLOBAL", 1>>, <<3, "OP_GET_LOCAL", 1>>,
                    <<3, "OP_CONSTANT", 2>>, <<3, "OP_ADD">>,
                    <<3, "OP_CALL", 1>>, <<3, "OP_RETURN">>,
                    <<3, "OP_NIL">>, <<3, "OP_RETURN">> >>] >>

(* 1 fun w(a, b, c, d) { return w(a, b, c, d); }
   2 w(1, 2, 3, 4);                                                        *)
SrcWide ==
    << [name |-> "", arity |-> 0, upvalueCount |-> 0,
        constants |-> <<Fn(2), Str("w"), Num(1), Num(2), Num(3), Num(4)>>,
        code |-> << <<1, "OP_CLOSURE", 0>>, <<1, "OP_DEFINE_GLOBAL", 1>>,
                    <<2, "OP_GET_GLOBAL", 1>>, <<2, "OP_CONSTANT", 2>>,
                    <<2, "OP_CONSTANT", 3>>, <<2, "OP_CONSTANT", 4>>,
                    <<2, "OP_CONSTANT", 5>>, <<2, "OP_CALL", 4>>,
                    <<2, "OP_POP">>,
                    <<2, "OP_NIL">>, <<2, "OP_RETURN">> >>],
       [name |-> "w", arity |-> 4, upvalueCount |-> 0,
        constants |-> <<Str("w")>>,
        code |-> << <<1, "OP_GET_GLOBAL", 0>>, <<1, "OP_GET_LOCAL", 1>>,
                    <<1, "OP_GET_LOCAL", 2>>, <<1, "OP_GET_LOCAL", 3>>,
                    <<1, "OP_GET_LOCAL", 4>>, <<1, "OP_CALL", 4>>,
                    <<1, "OP_RETURN">>,
                    <<1, "OP_NIL">>, <<1, "OP_RETURN">> >>] >>

(* 1 var L = [1, 2];
   2 append(L, 3);
   3 delete(L, 0);
   4 delete(L, 5);                                                         *)
SrcList ==
    << [name |-> "", arity |-> 0, upvalueCount |-> 0,
        constants |-> <<Num(1), Num(2), Str("L"), Str("append"), Num(3),
                        Str("delete"), Num(0), Num(5)>>,
        code |-> << <<1, "OP_CONSTANT", 0>>, <<1, "OP_CONSTANT", 1>>,
                    <<1, "OP_BUILD_LIST", 2>>, <<1, "OP_DEFINE_GLOBAL", 2>>,
                    <<2, "OP_GET_GLOBAL", 3>>, <<2, "OP_GET_GLOBAL", 2>>,
                    <<2, "OP_CONSTANT", 4>>, <<2, "OP_CALL", 2>>,
                    <<2, "OP_POP">>,
                    <<3, "OP_GET_GLOBAL", 5>>, <<3, "OP_GET_GLOBAL", 2>>,
                    <<3, "OP_CONSTANT", 6>>, <<3, "OP_CALL", 2>>,
                    <<3, "OP_POP">>,
                    <<4, "OP_GET_GLOBAL", 5>>, <<4, "OP_GET_GLOBAL", 2>>,
                    <<4, "OP_CONSTANT", 7>>, <<4, "OP_CALL", 2>>,
                    <<4, "OP_POP">>,
                    <<4, "OP_NIL">>, <<4, "OP_RETURN">> >>] >>

(* 1 var t = clock();
   2 println(t, 1);
   3 readFile("p");
   4 clock(1);                                                             *)
SrcHost ==
    << [name |-> "", arity |-> 0, upvalueCount |-> 0,
        constants |-> <<Str("clock"), Str("t"), Str("println"), Num(1),
                        Str("readFile"), Str("p")>>,
        code |-> << <<1, "OP_GET_GLOBAL", 0>>, <<1, "OP_CALL", 0>>,
                    <<1, "OP_DEFINE_GLOBAL", 1>>,
                    <<2, "OP_GET_GLOBAL", 2>>, <<2, "OP_GET_GLOBAL", 1>>,
                    <<2, "OP_CONSTANT", 3>>, <<2, "OP_CALL", 2>>,
                    <<2, "OP_POP">>,
                    <<3, "OP_GET_GLOBAL", 4>>, <<3, "OP_CONSTANT", 5>>,
                    <<3, "OP_CALL", 1>>, <<3, "OP_POP">>,
                    <<4, "OP_GET_GLOBAL", 0>>, <<4, "OP_CONSTANT", 3>>,
                    <<4, "OP_CALL", 1>>, <<4, "OP_POP">>,
                    <<4, "OP_NIL">>, <<4, "OP_RETURN">> >>] >>

(* 1 var L = [1, 2, 3];
   2 println(L[0], L[1], L[2]);
   3 L[0] = L[2];
   4 fun f() { return L[5]; }
   5 f();                                                                  *)
SrcSubscr ==
    << [name |-> "", arity |-> 0, upvalueCount |-> 0,
        constants |-> <<Num(1), Num(2), Num(3), Str("L"), Str("println"),
                        Num(0), Fn(2), Str("f")>>,
        code |-> << <<1, "OP_CONSTANT", 0>>, <<1, "OP_CONSTANT", 1>>,
                    <<1, "OP_CONSTANT", 2>>, <<1, "OP_BUILD_LIST", 3>>,
                    <<1, "OP_DEFINE_GLOBAL", 3>>,
                    <<2, "OP_GET_GLOBAL", 4>>,
                    <<2, "OP_GET_GLOBAL", 3>>, <<2, "OP_CONSTANT", 5>>,
                    <<2, "OP_INDEX_SUBSCR">>,
                    <<2, "OP_GET_GLOBAL", 3>>, <<2, "OP_CONSTANT", 0>>,
                    <<2, "OP_INDEX_SUBSCR">>,
                    <<2, "OP_GET_GLOBAL", 3>>, <<2, "OP_CONSTANT", 1>>,
                    <<2, "OP_INDEX_SUBSCR">>,
                    <<2, "OP_CALL", 3>>, <<2, "OP_POP">>,
                    <<3, "OP_GET_GLOBAL", 3>>, <<3, "OP_CONSTANT", 5>>,
                    <<3, "OP_GET_GLOBAL", 3>>, <<3, "OP_CONSTANT", 1>>,
                    <<3, "OP_INDEX_SUBSCR">>, <<3, "OP_STORE_SUBSCR">>,
                    <<3, "OP_POP">>,
                    <<4, "OP_CLOSURE", 6>>, <<4, "OP_DEFINE_GLOBAL", 7>>,
                    <<5, "OP_GET_GLOBAL", 7>>, <<5, "OP_CALL", 0>>,
                    <<5, "OP_POP">>,
                    <<5, "OP_NIL">>, <<5, "OP_RETURN">> >>],
       [name |-> "f", arity |-> 0, upvalueCount |-> 0,
        constants |-> <<Str("L"), Num(5)>>,
        code |-> << <<4, "OP_GET_GLOBAL", 0>>, <<4, "OP_CONSTANT", 1>>,
                    <<4, "OP_INDEX_SUBSCR">>, <<4, "OP_RETURN">>,
                    <<4, "OP_NIL">>, <<4, "OP_RETURN">> >>] >>

(* 1 var M = [1];
   2 println(M[0]);
   3
   4 M[7] = 1;                                                             *)
SrcStore ==
    << [name |-> "", arity |-> 0, upvalueCount |-> 0,
        constants |-> <<Num(1), Str("M"), Str("println"), Num(0), Num(7)>>,
        code |-> << <<1, "OP_CONSTANT", 0>>, <<1, "OP_BUILD_LIST", 1>>,
                    <<1, "OP_DEFINE_GLOBAL", 1>>,
                    <<2, "OP_GET_GLOBAL", 2>>,
                    <<2, "OP_GET_GLOBAL", 1>>, <<2, "OP_CONSTANT", 3>>,
                    <<2, "OP_INDEX_SUBSCR">>,
                    <<2, "OP_CALL", 1>>, <<2, "OP_POP">>,
                    <<4, "OP_GET_GLOBAL", 1>>, <<4, "OP_CONSTANT", 4>>,
                    <<4, "OP_CONSTANT", 0>>, <<4, "OP_STORE_SUBSCR">>,
                    <<4, "OP_POP">>,
                    <<4, "OP_NIL">>, <<4, "OP_RETURN">> >>] >>

(* 1 { var a = 1; var b = 2;
   2   s("x");
   3   println(a + b); }
   s is the global that the source "orphan" binds to its closure set.      *)
SrcClobber ==
    << [name |-> "", arity |-> 0, upvalueCount |-> 0,
        constants |-> <<Num(1), Num(2), Str("s"), Str("x"), Str("println")>>,
        code |-> << <<1, "OP_CONSTANT", 0>>, <<1, "OP_CONSTANT", 1>>,
                    <<2, "OP_GET_GLOBAL", 2>>, <<2, "OP_CONSTANT", 3>>,
                    <<2, "OP_CALL", 1>>, <<2, "OP_POP">>,
                    <<3, "OP_GET_GLOBAL", 4>>, <<3, "OP_GET_LOCAL", 1>>,
                    <<3, "OP_GET_LOCAL", 2>>, <<3, "OP_ADD">>,
                    <<3, "OP_CALL", 1>>, <<3, "OP_POP">>,
                    <<3, "OP_POP">>, <<3, "OP_POP">>,
                    <<3, "OP_NIL">>, <<3, "OP_RETURN">> >>] >>

(* 1 if (clock() == 0) { u = 1; }
   2 println(u);                                                           *)
SrcAssign ==
    << [name |-> "", arity |-> 0, upvalueCount |-> 0,
        constants |-> <<Str("clock"), Num(0), Str("u"), Num(1),
                        Str("println")>>,
        code |-> << <<1, "OP_GET_GLOBAL", 0>>, <<1, "OP_CALL", 0>>,
                    <<1, "OP_CONSTANT", 1>>, <<1, "OP_EQUAL">>,
                    <<1, "OP_JUMP_IF_FALSE", 0, 9>>, <<1, "OP_POP">>,
                    <<1, "OP_CONSTANT", 3>>, <<1, "OP_SET_GLOBAL", 2>>,
                    <<1, "OP_POP">>, <<1, "OP_JUMP", 0, 1>>,
                    <<1, "OP_POP">>,
                    <<2, "OP_GET_GLOBAL", 4>>, <<2, "OP_GET_GLOBAL", 2>>,
                    <<2, "OP_CALL", 1>>, <<2, "OP_POP">>,
                    <<2, "OP_NIL">>, <<2, "OP_RETURN">> >>] >>

(* 1 var k = "ab";
   2 println("a" + "b" == k, "a" + "c");                                   *)
SrcConcat ==
    << [name |-> "", arity |-> 0, upvalueCount |-> 0,
        constants |-> <<Str("ab"), Str("k"), Str("println"), Str("a"),
                        Str("b"), Str("c")>>,
        code |-> << <<1, "OP_CONSTANT", 0>>, <<1, "OP_DEFINE_GLOBAL", 1>>,
                    <<2, "OP_GET_GLOBAL", 2>>,
                    <<2, "OP_CONSTANT", 3>>, <<2, "OP_CONSTANT", 4>>,
                    <<2, "OP_ADD">>, <<2, "OP_GET_GLOBAL", 1>>,
                    <<2, "OP_EQUAL">>,
                    <<2, "OP_CONSTANT", 3>>, <<2, "OP_CONSTANT", 5>>,
                    <<2, "OP_ADD">>,
                    <<2, "OP_CALL", 2>>, <<2, "OP_POP">>,
                    <<2, "OP_NIL">>, <<2, "OP_RETURN">> >>] >>

(* 1 var D = [1, 2, 3];
   2 delete(D, 1);
   3 delete(D, -0.5);
   4 delete(D, -1);                                                        *)
SrcDel ==
    << [name |-> "", arity |-> 0, upvalueCount |-> 0,
        constants |-> <<Num(1), Num(2), Num(3), Str("D"), Str("delete"),
                        Halves(1)>>,
        code |-> << <<1, "OP_CONSTANT", 0>>, <<1, "OP_CONSTANT", 1>>,
                    <<1, "OP_CONSTANT", 2>>, <<1, "OP_BUILD_LIST", 3>>,
                    <<1, "OP_DEFINE_GLOBAL", 3>>,
                    <<2, "OP_GET_GLOBAL", 4>>, <<2, "OP_GET_GLOBAL", 3>>,
                    <<2, "OP_CONSTANT", 0>>, <<2, "OP_CALL", 2>>,
                    <<2, "OP_POP">>,
                    <<3, "OP_GET_GLOBAL", 4>>, <<3, "OP_GET_GLOBAL", 3>>,
                    <<3, "OP_CONSTANT", 5>>, <<3, "OP_NEGATE">>,
                    <<3, "OP_CALL", 2>>, <<3, "OP_POP">>,
                    <<4, "OP_GET_GLOBAL", 4>>, <<4, "OP_GET_GLOBAL", 3>>,
                    <<4, "OP_CONSTANT", 0>>, <<4, "OP_NEGATE">>,
                    <<4, "OP_CALL", 2>>, <<4, "OP_POP">>,
                    <<4, "OP_NIL">>, <<4, "OP_RETURN">> >>] >>

(* 1 var E = [];
   2 delete(E, 0);                                                         *)
SrcEmpty ==
    << [name |-> "", arity |-> 0, upvalueCount |-> 0,
        constants |-> <<Str("E"), Str("delete"), Num(0)>>,
        code |-> << <<1, "OP_BUILD_LIST", 0>>, <<1, "OP_DEFINE_GLOBAL", 0>>,
                    <<2, "OP_GET_GLOBAL", 1>>, <<2, "OP_GET_GLOBAL", 0>>,
                    <<2, "OP_CONSTANT", 2>>, <<2, "OP_CALL", 2>>,
                    <<2, "OP_POP">>,
                    <<2, "OP_NIL">>, <<2, "OP_RETURN">> >>] >>

(* 1 var A = [1, 1, 1, 1, 1, 1, 1];
   2 append(A, 2);
   3 append(A, 3);
   4 delete(A, 0);
   5 A[0] = 4;
   6 append(A, 5);                                                         *)
SrcGrow ==
    << [name |-> "", arity |-> 0, upvalueCount |-> 0,
        constants |-> <<Num(1), Str("A"), Str("append"), Num(2), Num(3),
                        Str("delete"), Num(0), Num(4), Num(5)>>,
        code |-> << <<1, "OP_CONSTANT", 0>>, <<1, "OP_CONSTANT", 0>>,
                    <<1, "OP_CONSTANT", 0>>, <<1, "OP_CONSTANT", 0>>,
                    <<1, "OP_CONSTANT", 0>>, <<1, "OP_CONSTANT", 0>>,
                    <<1, "OP_CONSTANT", 0>>, <<1, "OP_BUILD_LIST", 7>>,
                    <<1, "OP_DEFINE_GLOBAL", 1>>,
                    <<2, "OP_GET_GLOBAL", 2>>, <<2, "OP_GET_GLOBAL", 1>>,
                    <<2, "OP_CONSTANT", 3>>, <<2, "OP_CALL", 2>>,
                    <<2, "OP_POP">>,
                    <<3, "OP_GET_GLOBAL", 2>>, <<3, "OP_GET_GLOBAL", 1>>,
                    <<3, "OP_CONSTANT", 4>>, <<3, "OP_CALL", 2>>,
                    <<3, "OP_POP">>,
                    <<4, "OP_GET_GLOBAL", 5>>, <<4, "OP_GET_GLOBAL", 1>>,
                    <<4, "OP_CONSTANT", 6>>, <<4, "OP_CALL", 2>>,
                    <<4, "OP_POP">>,
                    <<5, "OP_GET_GLOBAL", 1>>, <<5, "OP_CONSTANT", 6>>,
                    <<5, "OP_CONSTANT", 7>>, <<5, "OP_STORE_SUBSCR">>,
                    <<5, "OP_POP">>,
                    <<6, "OP_GET_GLOBAL", 2>>, <<6, "OP_GET_GLOBAL", 1>>,
                    <<6, "OP_CONSTANT", 8>>, <<6, "OP_CALL", 2>>,
                    <<6, "OP_POP">>,
                    <<6, "OP_NIL">>, <<6, "OP_RETURN">> >>] >>

(* 1 fun outer() {
   2   var a = 1; var b = 2;
   3   fun mid() {
   4     a;
   5     fun inner() { return b; }
   6     return inner; }
   7   return mid(); }
   8 var h = outer();
   9 println(h());                                                         *)
SrcNest ==
    << [name |-> "", arity |-> 0, upvalueCount |-> 0,
        constants |-> <<Fn(2), Str("outer"), Str("h"), Str("println")>>,
        code |-> << <<7, "OP_CLOSURE", 0>>, <<7, "OP_DEFINE_GLOBAL", 1>>,
                    <<8, "OP_GET_GLOBAL", 1>>, <<8, "OP_CALL", 0>>,
                    <<8, "OP_DEFINE_GLOBAL", 2>>,
                    <<9, "OP_GET_GLOBAL", 3>>, <<9, "OP_GET_GLOBAL", 2>>,
                    <<9, "OP_CALL", 0>>, <<9, "OP_CALL", 1>>,
                    <<9, "OP_POP">>,
                    <<9, "OP_NIL">>, <<9, "OP_RETURN">> >>],
       [name |-> "outer", arity |-> 0, upvalueCount |-> 0,
        constants |-> <<Num(1), Num(2), Fn(3)>>,
        code |-> << <<2, "OP_CONSTANT", 0>>, <<2, "OP_CONSTANT", 1>>,
                    <<6, "OP_CLOSURE", 2, 1, 1, 1, 2>>,
                    <<7, "OP_GET_LOCAL", 3>>, <<7, "OP_CALL", 0>>,
                    <<7, "OP_RETURN">>,
                    <<7, "OP_NIL">>, <<7, "OP_RETURN">> >>],
       [name |-> "mid", arity |-> 0, upvalueCount |-> 2,
        constants |-> <<Fn(4)>>,
        code |-> << <<4, "OP_GET_UPVALUE", 0>>, <<4, "OP_POP">>,
                    <<5, "OP_CLOSURE", 0, 0, 1>>,
                    <<6, "OP_GET_LOCAL", 1>>, <<6, "OP_RETURN">>,
                    <<6, "OP_NIL">>, <<6, "OP_RETURN">> >>],
       [name |-> "inner", arity |-> 0, upvalueCount |-> 1,
        constants |-> << >>,
        code |-> << <<5, "OP_GET_UPVALUE", 0>>, <<5, "OP_RETURN">>,
                    <<5, "OP_NIL">>, <<5, "OP_RETURN">> >>] >>

(* 1 var S = [1, 2, 3];
   2 S[1] = 7;
   3 S[-0.5] = 9;
   4 if (clock() == 0) { S["x"] = 1; }
   5 if (clock() == 0) { clock[0] = 1; }
   6 if (clock() == 0) { S[3] = 1; }
   7 S[-1] = 1;                                                            *)
SrcSetItem ==
    << [name |-> "", arity |-> 0, upvalueCount |-> 0,
        constants |-> <<Num(1), Num(2), Num(3), Str("S"), Num(7), Halves(1),
                        Num(9), Str("clock"), Num(0), Str("x")>>,
        code |-> << <<1, "OP_CONSTANT", 0>>, <<1, "OP_CONSTANT", 1>>,
                    <<1, "OP_CONSTANT", 2>>, <<1, "OP_BUILD_LIST", 3>>,
                    <<1, "OP_DEFINE_GLOBAL", 3>>,
                    <<2, "OP_GET_GLOBAL", 3>>, <<2, "OP_CONSTANT", 0>>,
                    <<2, "OP_CONSTANT", 4>>, <<2, "OP_STORE_SUBSCR">>,
                    <<2, "OP_POP">>,
                    <<3, "OP_GET_GLOBAL", 3>>, <<3, "OP_CONSTANT", 5>>,
                    <<3, "OP_NEGATE">>, <<3, "OP_CONSTANT", 6>>,
                    <<3, "OP_STORE_SUBSCR">>, <<3, "OP_POP">>,
                    <<4, "OP_GET_GLOBAL", 7>>, <<4, "OP_CALL", 0>>,
                    <<4, "OP_CONSTANT", 8>>, <<4, "OP_EQUAL">>,
                    <<4, "OP_JUMP_IF_FALSE", 0, 12>>, <<4, "OP_POP">>,
                    <<4, "OP_GET_GLOBAL", 3>>, <<4, "OP_CONSTANT", 9>>,
                    <<4, "OP_CONSTANT", 0>>, <<4, "OP_STORE_SUBSCR">>,
                    <<4, "OP_POP">>, <<4, "OP_JUMP", 0, 1>>, <<4, "OP_POP">>,
                    <<5, "OP_GET_GLOBAL", 7>>, <<5, "OP_CALL", 0>>,
                    <<5, "OP_CONSTANT", 8>>, <<5, "OP_EQUAL">>,
                    <<5, "OP_JUMP_IF_FALSE", 0, 12>>, <<5, "OP_POP">>,
                    <<5, "OP_GET_GLOBAL", 7>>, <<5, "OP_CONSTANT", 8>>,
                    <<5, "OP_CONSTANT", 0>>, <<5, "OP_STORE_SUBSCR">>,
                    <<5, "OP_POP">>, <<5, "OP_JUMP", 0, 1>>, <<5, "OP_POP">>,
                    <<6, "OP_GET_GLOBAL", 7>>, <<6, "OP_CALL", 0>>,
                    <<6, "OP_CONSTANT", 8>>, <<6, "OP_EQUAL">>,
                    <<6, "OP_JUMP_IF_FALSE", 0, 12>>, <<6, "OP_POP">>,
                    <<6, "OP_GET_GLOBAL", 3>>, <<6, "OP_CONSTANT", 2>>,
                    <<6, "OP_CONSTANT", 0>>, <<6, "OP_STORE_SUBSCR">>,
                    <<6, "OP_POP">>, <<6, "OP_JUMP", 0, 1>>, <<6, "OP_POP">>,
                    <<7, "OP_GET_GLOBAL", 3>>, <<7, "OP_CONSTANT", 0>>,
                    <<7, "OP_NEGATE">>, <<7, "OP_CONSTANT", 0>>,
                    <<7, "OP_STORE_SUBSCR">>, <<7, "OP_POP">>,
                    <<7, "OP_NIL">>, <<7, "OP_RETURN">> >>] >>

(* 1 var n = 1 + 2;
   2 if (clock() == 0) { "a" + 1; }
   3 if (clock() == 0) { 1 + "a"; }
   4 if (clock() == 0) { nil + nil; }
   5 println("" + "a", n + 0.5);
   6 clock + clock;                                                        *)
SrcMixed ==
    << [name |-> "", arity |-> 0, upvalueCount |-> 0,
        constants |-> <<Num(1), Num(2), Str("n"), Str("clock"), Num(0),
                        Str("a"), Str("println"), Str(""), Halves(1)>>,
        code |-> << <<1, "OP_CONSTANT", 0>>, <<1, "OP_CONSTANT", 1>>,
                    <<1, "OP_ADD">>, <<1, "OP_DEFINE_GLOBAL", 2>>,
                    <<2, "OP_GET_GLOBAL", 3>>, <<2, "OP_CALL", 0>>,
                    <<2, "OP_CONSTANT", 4>>, <<2, "OP_EQUAL">>,
                    <<2, "OP_JUMP_IF_FALSE", 0, 10>>, <<2, "OP_POP">>,
                    <<2, "OP_CONSTANT", 5>>, <<2, "OP_CONSTANT", 0>>,
                    <<2, "OP_ADD">>, <<2, "OP_POP">>,
                    <<2, "OP_JUMP", 0, 1>>, <<2, "OP_POP">>,
                    <<3, "OP_GET_GLOBAL", 3>>, <<3, "OP_CALL", 0>>,
                    <<3, "OP_CONSTANT", 4>>, <<3, "OP_EQUAL">>,
                    <<3, "OP_JUMP_IF_FALSE", 0, 10>>, <<3, "OP_POP">>,
                    <<3, "OP_CONSTANT", 0>>, <<3, "OP_CONSTANT", 5>>,
                    <<3, "OP_ADD">>, <<3, "OP_POP">>,
                    <<3, "OP_JUMP", 0, 1>>, <<3, "OP_POP">>,
                    <<4, "OP_GET_GLOBAL", 3>>, <<4, "OP_CALL", 0>>,
                    <<4, "OP_CONSTANT", 4>>, <<4, "OP_EQUAL">>,
                    <<4, "OP_JUMP_IF_FALSE", 0, 8>>, <<4, "OP_POP">>,
                    <<4, "OP_NIL">>, <<4, "OP_NIL">>,
                    <<4, "OP_ADD">>, <<4, "OP_POP">>,
                    <<4, "OP_JUMP", 0, 1>>, <<4, "OP_POP">>,
                    <<5, "OP_GET_GLOBAL", 6>>,
                    <<5, "OP_CONSTANT", 7>>, <<5, "OP_CONSTANT", 5>>,
                    <<5, "OP_ADD">>,
                    <<5, "OP_GET_GLOBAL", 2>>, <<5, "OP_CONSTANT", 8>>,
                    <<5, "OP_ADD">>,
                    <<5, "OP_CALL", 2>>, <<5, "OP_POP">>,
                    <<6, "OP_GET_GLOBAL", 3>>, <<6, "OP_GET_GLOBAL", 3>>,
                    <<6, "OP_ADD">>, <<6, "OP_POP">>,
                    <<6, "OP_NIL">>, <<6, "OP_RETURN">> >>] >>

\* n statements "nil;" on one line.
NilStatements(line, n) ==
    [i \in 1..(2 * n) |-> IF i % 2 = 1 THEN <<line, "OP_NIL">>
                          ELSE <<line, "OP_POP">>]

(* 1 if (nil) { nil; nil; ... (128 times) }
   2 if (1 == 2) { println(2); }
   3 if (0) { println(3); }
   4 if ("") { println(4); }
   5 if (1 == 1) { println(5); }                                           *)
SrcTruthy ==
    << [name |-> "", arity |-> 0, upvalueCount |-> 0,
        constants |-> <<Num(1), Num(2), Str("println"), Num(0), Num(3),
                        Str(""), Num(4), Num(5)>>,
        code |-> << <<1, "OP_NIL">>, <<1, "OP_JUMP_IF_FALSE", 1, 4>>,
                    <<1, "OP_POP">> >>
                 \o NilStatements(1, 128)
                 \o << <<1, "OP_JUMP", 0, 1>>, <<1, "OP_POP">>,
                    <<2, "OP_CONSTANT", 0>>, <<2, "OP_CONSTANT", 1>>,
                    <<2, "OP_EQUAL">>,
                    <<2, "OP_JUMP_IF_FALSE", 0, 11>>, <<2, "OP_POP">>,
                    <<2, "OP_GET_GLOBAL", 2>>, <<2, "OP_CONSTANT", 1>>,
                    <<2, "OP_CALL", 1>>, <<2, "OP_POP">>,
                    <<2, "OP_JUMP", 0, 1>>, <<2, "OP_POP">>,
                    <<3, "OP_CONSTANT", 3>>,
                    <<3, "OP_JUMP_IF_FALSE", 0, 11>>, <<3, "OP_POP">>,
                    <<3, "OP_GET_GLOBAL", 2>>, <<3, "OP_CONSTANT", 4>>,
                    <<3, "OP_CALL", 1>>, <<3, "OP_POP">>,
                    <<3, "OP_JUMP", 0, 1>>, <<3, "OP_POP">>,
                    <<4, "OP_CONSTANT", 5>>,
                    <<4, "OP_JUMP_IF_FALSE", 0, 11>>, <<4, "OP_POP">>,
                    <<4, "OP_GET_GLOBAL", 2>>, <<4, "OP_CONSTANT", 6>>,
                    <<4, "OP_CALL", 1>>, <<4, "OP_POP">>,
                    <<4, "OP_JUMP", 0, 1>>, <<4, "OP_POP">>,
                    <<5, "OP_CONSTANT", 0>>, <<5, "OP_CONSTANT", 0>>,
                    <<5, "OP_EQUAL">>,
                    <<5, "OP_JUMP_IF_FALSE", 0, 11>>, <<5, "OP_POP">>,
                    <<5, "OP_GET_GLOBAL", 2>>, <<5, "OP_CONSTANT", 7>>,
                    <<5, "OP_CALL", 1>>, <<5, "OP_POP">>,
                    <<5, "OP_JUMP", 0, 1>>, <<5, "OP_POP">>,
                    <<5, "OP_NIL">>, <<5, "OP_RETURN">> >>] >>

\* A source text with a syntax error: compile() yields NULL.
SrcBad == <<>>

\* The source texts the host submits, and what each compiles to.
Sources == {"counter", "bump", "pair", "use", "blocks", "orphan", "multi",
            "deep", "deepArity", "list", "host", "bad",
            "subscr", "store", "clobber", "assign", "concat",
            "del", "empty", "grow"}

Program(source) ==
    CASE source = "counter" -> SrcCounter
      [] source = "bump" -> SrcBump
      [] source = "pair" -> SrcPair
      [] source = "use" -> SrcUse
      [] source = "blocks" -> SrcBlocks
      [] source = "orphan" -> SrcOrphan
      [] source = "multi" -> SrcMulti
      [] source = "deep" -> SrcDeep
      [] source = "deepArity" -> SrcDeepArity
      [] source = "wide" -> SrcWide
      [] source = "list" -> SrcList
      [] source = "host" -> SrcHost
      [] source = "bad" -> SrcBad
      [] source = "subscr" -> SrcSubscr
      [] source = "store" -> SrcStore
      [] source = "clobber" -> SrcClobber
      [] source = "assign" -> SrcAssign
      [] source = "concat" -> SrcConcat
      [] source = "del" -> SrcDel
      [] source = "empty" -> SrcEmpty
      [] source = "grow" -> SrcGrow
      [] source = "nest" -> SrcNest
      [] source = "truthy" -> SrcTruthy
      [] source = "mixed" -> SrcMixed
      [] source = "setitem" -> SrcSetItem

\* What the host environment may answer to a native: the processor time in
\* seconds (the double 0 or 3.5) and whether the file can be opened.
HostEnv == {[clock |-> c, fileExists |-> e, fileContent |-> "data"] :
               c \in {0, 7}, e \in BOOLEAN}

(***************************************************************************)
(* compile(): interns the names and string literals of the source, then    *)
(* allocates one function object per function, the script's first, and     *)
(* yields the script's function, or NULL for a source that does not        *)
(* compile.                                                                *)
(***************************************************************************)
FnStrings(fn) ==
    LET strs == SelectSeq(fn.constants, LAMBDA c : c.k = "str")
    IN (IF fn.name = "" THEN <<>> ELSE <<fn.name>>)
       \o [i \in 1..Len(strs) |-> strs[i].s]

RECURSIVE SourceStrings(_)
SourceStrings(fns) ==
    IF fns = <<>> THEN <<>>
    ELSE FnStrings(Head(fns)) \o SourceStrings(Tail(fns))

RECURSIVE internAll(_, _)
internAll(m, strs) ==
    IF strs = <<>> THEN m
    ELSE internAll(copyString(m, Head(strs)).m, Tail(strs))

\* newFunction() and the compiler's filling of the function and its chunk.
newFunction(m, fn, base) ==
    LET Constant(c) == CASE c.k = "num" -> NUMBER_VAL(c.n)
                         [] c.k = "str" -> OBJ_VAL(tableFindString(m, c.s))
                         [] c.k = "fn" -> OBJ_VAL(base + c.i)
    IN allocateObject(m, "OBJ_FUNCTION",
           [arity |-> fn.arity, upvalueCount |-> fn.upvalueCount,
            name |-> IF fn.name = "" THEN NULL
                     ELSE tableFindString(m, fn.name),
            chunk |-> [code |-> Bytes(fn.code), lines |-> Lines(fn.code),
                       constants |-> [i \in 1..Len(fn.constants) |->
                                         Constant(fn.constants[i])]]])

RECURSIVE allocFunctions(_, _, _)
allocFunctions(m, fns, base) ==
    IF fns = <<>> THEN m
    ELSE allocFunctions(newFunction(m, Head(fns), base).m, Tail(fns), base)

compile(m, source) ==
    LET fns == Program(source)
        ms == internAll(m, SourceStrings(fns))
        base == Len(ms.heap)
    IN IF fns = <<>> THEN [m |-> m, ret |-> NULL]
       ELSE [m |-> allocFunctions(ms, fns, base), ret |-> base + 1]

(***************************************************************************)
(* initVM: the zeroed global VM, reset, with the five natives defined.     *)
(***************************************************************************)
ZeroValue == [t |-> "zero", v |-> 0]

ZeroVM ==
    [stack |-> [i \in 0..(STACK_MAX - 1) |-> ZeroValue],
     stackTop |-> 0,
     frames |-> [i \in 0..(FRAMES_MAX - 1) |->
                    [closure |-> NULL, ip |-> -1, slots |-> -1]],
     frameCount |-> 0,
     globals |-> [k \in {} |-> NIL_VAL],
     strings |-> {},
     openUpvalues |-> NULL,
     objects |-> NULL,
     heap |-> <<>>,
     released |-> <<>>,
     undefined |-> FALSE]

defineNative(m, name, function, arity) ==
    LET c == copyString(m, name)
        m1 == push(c.m, OBJ_VAL(c.ret))
        n == newNative(m1, function, arity)
        m2 == push(n.m, OBJ_VAL(n.ret))
        m3 == [m2 EXCEPT !.globals =
                  tableSet(@, AS_OBJ(m2.stack[0]), m2.stack[1]).table]
    IN pop(pop(m3))

initVM ==
    LET m0 == [resetStack(ZeroVM) EXCEPT !.objects = NULL]
        m1 == defineNative(m0, "clock", "clockNative", 0)
        m2 == defineNative(m1, "readFile", "readFileNative", 1)
        m3 == defineNative(m2, "println", "printlnNative", -1)
        m4 == defineNative(m3, "append", "appendNative", 2)
    IN defineNative(m4, "delete", "deleteNative", 2)

\* No report has been written to stderr yet.
NoReport == [format |-> "", args |-> <<>>, trace |-> <<>>]

Init ==
    /\ vm = initVM
    /\ ip = 0
    /\ pc = "idle"
    /\ result = "NONE"
    /\ stderr = NoReport
    /\ stdout = <<>>
    /\ runs = 0
    /\ hist = [written |-> [u \in {} |-> NIL_VAL],
               captures |-> {},
               act |-> [i \in 0..(FRAMES_MAX - 1) |-> 0],
               calls |-> 0,
               site |-> [i \in 0..(FRAMES_MAX - 1) |-> 0],
               source |-> "",
               after |-> "NONE",
               built |-> [l \in {} |-> <<>>],
               bound |-> [chars \in {initVM.heap[k].chars :
                                        k \in DOMAIN initVM.globals} |->
                             initVM.globals[CHOOSE k \in DOMAIN initVM.globals :
                                               initVM.heap[k].chars = chars]]]

(***************************************************************************)
(* hist is a history variable, read by no operation.  hist.written[u] is   *)
(* the value last written to the variable that upvalue u captured: by its  *)
(* initialisation, by OP_SET_LOCAL while it is on the stack, or by         *)
(* OP_SET_UPVALUE through u.  hist.act[i] numbers the activation that      *)
(* frame i holds (hist.calls activations so far), and hist.captures        *)
(* records, for each upvalue entry that OP_CLOSURE filled from an isLocal  *)
(* pair, the closure, the entry, the stack slot and the activation.        *)
(* hist.site[i] is the offset of the OP_CALL that frame i last executed.   *)
(* hist.source is the source last passed to interpret() and hist.after the *)
(* result of the interpret() call before that one.  hist.bound maps the    *)
(* name of each global that was ever bound, by defineNative, by            *)
(* OP_DEFINE_GLOBAL or by an OP_SET_GLOBAL that succeeded, to the value of *)
(* its last binding.  hist.built maps each list that OP_BUILD_LIST made    *)
(* and that no operation has written to since to the values that were on   *)
(* the stack when it was made, the deepest first.                          *)
(***************************************************************************)
\* The lists of h.built that machine m holds as vm holds them.
Unwritten(h, m) ==
    [h EXCEPT !.built = [l \in {x \in DOMAIN @ : m.heap[x] = vm.heap[x]} |->
                            @[l]]]

\* A call has pushed the top frame of m.
Activated(m) ==
    [hist EXCEPT !.act[m.frameCount - 1] = hist.calls + 1,
                 !.calls = hist.calls + 1]

Live(activation) ==
    \E i \in 0..(vm.frameCount - 1) : hist.act[i] = activation

(***************************************************************************)
(* interpret(source): compile, wrap the script in a closure on the stack,  *)
(* call it, and enter run(), whose register ip starts at the frame's ip.   *)
(***************************************************************************)
Interpret(source) ==
    /\ pc = "idle"
    /\ ~vm.undefined
    /\ runs < MaxRuns
    /\ runs' = runs + 1
    /\ LET c == compile(vm, source)
           m1 == push(c.m, OBJ_VAL(c.ret))
           cl == newClosure(m1, c.ret)
           m2 == push(pop(cl.m), OBJ_VAL(cl.ret))
           r == call(m2, cl.ret, 0)
       IN IF c.ret = NULL
          THEN /\ result' = "INTERPRET_COMPILE_ERROR"
               /\ hist' = [hist EXCEPT !.source = source, !.after = result]
               /\ UNCHANGED <<vm, ip, pc, stderr, stdout>>
          ELSE /\ vm' = r.m
               /\ ip' = r.m.frames[r.m.frameCount - 1].ip
               /\ pc' = "running"
               /\ result' = "NONE"
               /\ hist' = [Activated(r.m) EXCEPT !.source = source,
                                                 !.after = result]
               /\ UNCHANGED <<stderr, stdout>>

(***************************************************************************)
(* run(): the dispatch loop.  frame is the top call frame; ip is the       *)
(* register holding the offset of the next byte in that frame's chunk      *)
(* (frame->ip is written back only at a call and before some errors).      *)
(***************************************************************************)
Running == pc = "running" /\ ~vm.undefined

frame == vm.frames[vm.frameCount - 1]

chunk == vm.heap[vm.heap[frame.closure].function].chunk

\* The byte k places after the opcode at ip (k = 0: the opcode itself).
Byte(k) == chunk.code[ip + 1 + k]

\* READ_CONSTANT(), READ_STRING() and READ_SHORT() on the operand at ip + 1.
READ_CONSTANT == chunk.constants[Byte(1) + 1]
READ_STRING == AS_OBJ(READ_CONSTANT)
READ_SHORT == Byte(1) * 256 + Byte(2)

\* frame->ip = ip
SyncIp(m, nip) == [m EXCEPT !.frames[m.frameCount - 1].ip = nip]

\* The loop goes on with machine m at offset nip.
Continue(m, nip) ==
    /\ vm' = m
    /\ ip' = nip
    /\ UNCHANGED <<pc, result, stderr, stdout, runs>>

\* return INTERPRET_RUNTIME_ERROR after the runtimeError e.
Abort(e) ==
    /\ vm' = e.m
    /\ stderr' = e.report
    /\ pc' = "idle"
    /\ result' = "INTERPRET_RUNTIME_ERROR"
    /\ UNCHANGED <<ip, stdout, runs>>

OpConstant ==
    /\ Running /\ Byte(0) = "OP_CONSTANT"
    /\ Continue(push(vm, READ_CONSTANT), ip + 2)
    /\ UNCHANGED hist

OpNil ==
    /\ Running /\ Byte(0) = "OP_NIL"
    /\ Continue(push(vm, NIL_VAL), ip + 1)
    /\ UNCHANGED hist

OpPop ==
    /\ Running /\ Byte(0) = "OP_POP"
    /\ Continue(pop(vm), ip + 1)
    /\ UNCHANGED hist

OpGetLocal ==
    /\ Running /\ Byte(0) = "OP_GET_LOCAL"
    /\ Continue(push(vm, vm.stack[frame.slots + Byte(1)]), ip + 2)
    /\ UNCHANGED hist

\* The open upvalues: the addresses linked from vm.openUpvalues.
RECURSIVE OpenFrom(_, _)
OpenFrom(m, upvalue) ==
    IF upvalue = NULL THEN <<>>
    ELSE <<upvalue>> \o OpenFrom(m, m.heap[upvalue].next)

OpenList(m) == OpenFrom(m, m.openUpvalues)

OpenSet(m) == {OpenList(m)[i] : i \in 1..Len(OpenList(m))}

OpSetLocal ==
    /\ Running /\ Byte(0) = "OP_SET_LOCAL"
    /\ Continue([vm EXCEPT !.stack[frame.slots + Byte(1)] = peek(vm, 0)],
                ip + 2)
    /\ hist' = [hist EXCEPT !.written =
                   [u \in DOMAIN @ |->
                       IF u \in OpenSet(vm)
                          /\ vm.heap[u].location
                                 = StackSlot(frame.slots + Byte(1))
                       THEN peek(vm, 0) ELSE @[u]]]

OpGetGlobal ==
    /\ Running /\ Byte(0) = "OP_GET_GLOBAL"
    /\ LET name == READ_STRING
           got == tableGet(vm.globals, name)
       IN IF ~got.found
          THEN Abort(runtimeError(SyncIp(vm, ip + 2), "Undefined variable '%s'",
                                  <<vm.heap[name].chars>>))
          ELSE Continue(push(vm, got.value), ip + 2)
    /\ UNCHANGED hist

\* Faulty variant of OP_DEFINE_GLOBAL: a name that has a binding keeps it.
OpDefineGlobal_keepBinding ==
    /\ Running /\ Byte(0) = "OP_DEFINE_GLOBAL"
    /\ Continue(pop([vm EXCEPT !.globals =
                        IF tableGet(@, READ_STRING).found THEN @
                        ELSE tableSet(@, READ_STRING, peek(vm, 0)).table]),
                ip + 2)
    /\ hist' = [hist EXCEPT !.bound =
                   (vm.heap[READ_STRING].chars :> peek(vm, 0)) @@ @]

OpDefineGlobal ==
    /\ Running /\ Byte(0) = "OP_DEFINE_GLOBAL"
    /\ Continue(pop([vm EXCEPT !.globals =
                        tableSet(@, READ_STRING, peek(vm, 0)).table]),
                ip + 2)
    /\ hist' = [hist EXCEPT !.bound =
                   (vm.heap[READ_STRING].chars :> peek(vm, 0)) @@ @]

\* Faulty variant of OP_SET_GLOBAL: the binding that tableSet made for an
\* undefined name is not deleted before the error.
OpSetGlobal_noRollback ==
    /\ Running /\ Byte(0) = "OP_SET_GLOBAL"
    /\ LET name == READ_STRING
           set == tableSet(vm.globals, name, peek(vm, 0))
       IN IF set.isNewKey
          THEN Abort(runtimeError(
                   SyncIp([vm EXCEPT !.globals = set.table], ip + 2),
                   "Undefined variable '%s'.", <<vm.heap[name].chars>>))
          ELSE Continue([vm EXCEPT !.globals = set.table], ip + 2)
    /\ hist' = IF tableGet(vm.globals, READ_STRING).found
               THEN [hist EXCEPT !.bound =
                        (vm.heap[READ_STRING].chars :> peek(vm, 0)) @@ @]
               ELSE hist

OpSetGlobal ==
    /\ Running /\ Byte(0) = "OP_SET_GLOBAL"
    /\ LET name == READ_STRING
           set == tableSet(vm.globals, name, peek(vm, 0))
       IN IF set.isNewKey
          THEN Abort(runtimeError(
                   SyncIp([vm EXCEPT !.globals = tableDelete(set.table, name)],
                          ip + 2),
                   "Undefined variable '%s'.", <<vm.heap[name].chars>>))
          ELSE Continue([vm EXCEPT !.globals = set.table], ip + 2)
    /\ hist' = IF tableGet(vm.globals, READ_STRING).found
               THEN [hist EXCEPT !.bound =
                        (vm.heap[READ_STRING].chars :> peek(vm, 0)) @@ @]
               ELSE hist

OpGetUpvalue ==
    /\ Running /\ Byte(0) = "OP_GET_UPVALUE"
    /\ LET upvalue == vm.heap[frame.closure].upvalues[Byte(1) + 1]
       IN Continue(push(vm, Deref(vm, vm.heap[upvalue].location)), ip + 2)
    /\ UNCHANGED hist

OpSetUpvalue ==
    /\ Running /\ Byte(0) = "OP_SET_UPVALUE"
    /\ LET upvalue == vm.heap[frame.closure].upvalues[Byte(1) + 1]
       IN /\ Continue(Store(vm, vm.heap[upvalue].location, peek(vm, 0)), ip + 2)
          /\ hist' = [hist EXCEPT !.written[upvalue] = peek(vm, 0)]

OpEqual ==
    /\ Running /\ Byte(0) = "OP_EQUAL"
    /\ Continue([vm EXCEPT
                    !.stack[vm.stackTop - 2] =
                        BOOL_VAL(valuesEqual(vm.stack[vm.stackTop - 2],
                                             vm.stack[vm.stackTop - 1])),
                    !.stackTop = @ - 1],
                ip + 1)
    /\ UNCHANGED hist

OpAdd ==
    /\ Running /\ Byte(0) = "OP_ADD"
    /\ IF IS_STRING(vm, peek(vm, 0)) /\ IS_STRING(vm, peek(vm, 1))
       THEN Continue(concatenate(vm), ip + 1)
       ELSE IF IS_NUMBER(peek(vm, 0)) /\ IS_NUMBER(peek(vm, 1))
       THEN Continue([vm EXCEPT
                        !.stack[vm.stackTop - 2] =
                            NUMBER_VAL(AS_NUMBER(vm.stack[vm.stackTop - 2])
                                       + AS_NUMBER(vm.stack[vm.stackTop - 1])),
                        !.stackTop = @ - 1],
                     ip + 1)
       ELSE Abort(runtimeError(SyncIp(vm, ip + 1),
                      "Operands must be two numbers or two strings", <<>>))
    /\ UNCHANGED hist

OpNegate ==
    /\ Running /\ Byte(0) = "OP_NEGATE"
    /\ IF ~IS_NUMBER(peek(vm, 0))
       THEN Abort(runtimeError(SyncIp(vm, ip + 1), "Operand must be a number",
                               <<>>))
       ELSE Continue([vm EXCEPT !.stack[vm.stackTop - 1] =
                         NUMBER_VAL(-AS_NUMBER(vm.stack[vm.stackTop - 1]))],
                     ip + 1)
    /\ UNCHANGED hist

OpJump ==
    /\ Running /\ Byte(0) = "OP_JUMP"
    /\ Continue(vm, ip + 3 + READ_SHORT)
    /\ UNCHANGED hist

OpJumpIfFalse ==
    /\ Running /\ Byte(0) = "OP_JUMP_IF_FALSE"
    /\ Continue(vm, IF isFalsey(peek(vm, 0)) THEN ip + 3 + READ_SHORT
                    ELSE ip + 3)
    /\ UNCHANGED hist

OpCall ==
    /\ Running /\ Byte(0) = "OP_CALL"
    /\ \E env \in HostEnv :
          LET argCount == Byte(1)
              m1 == SyncIp(vm, ip + 2)
              r == callValue(m1, peek(m1, argCount), argCount, env)
          IN IF ~r.ok
             THEN /\ vm' = r.m
                  /\ stderr' = r.reports[1]
                  /\ pc' = "idle"
                  /\ result' = "INTERPRET_RUNTIME_ERROR"
                  /\ hist' = Unwritten(hist, r.m)
                  /\ UNCHANGED <<ip, stdout, runs>>
             ELSE /\ vm' = r.m
                  /\ ip' = r.m.frames[r.m.frameCount - 1].ip
                  /\ stdout' = stdout \o r.out
                  /\ hist' = [(IF r.m.frameCount = vm.frameCount
                                THEN Unwritten(hist, r.m)
                                ELSE Unwritten(Activated(r.m), r.m))
                                 EXCEPT !.site[vm.frameCount - 1] = ip]
                  /\ UNCHANGED <<pc, result, stderr, runs>>

\* The for loop of OP_CLOSURE from pair i on: the pairs (isLocal, index)
\* follow the constant operand, pair i at offsets 2 + 2i and 3 + 2i.
\* Faulty variant of fillUpvalues: an inherited upvalue is taken from the
\* enclosing closure at the position of the pair, not at the pair's index.
RECURSIVE fillUpvalues_byPosition(_, _, _)
fillUpvalues_byPosition(m, closure, i) ==
    IF i < m.heap[closure].upvalueCount
    THEN LET isLocal == Byte(2 + 2 * i)
             index == Byte(3 + 2 * i)
             c == captureUpvalue(m, frame.slots + index)
         IN IF isLocal # 0
            THEN fillUpvalues_byPosition(
                     [c.m EXCEPT !.heap[closure].upvalues[i + 1] = c.ret],
                     closure, i + 1)
            ELSE fillUpvalues_byPosition(
                     [m EXCEPT !.heap[closure].upvalues[i + 1] =
                          m.heap[frame.closure].upvalues[i + 1]],
                     closure, i + 1)
    ELSE m

RECURSIVE fillUpvalues(_, _, _)
fillUpvalues(m, closure, i) ==
    IF i < m.heap[closure].upvalueCount
    THEN LET isLocal == Byte(2 + 2 * i)
             index == Byte(3 + 2 * i)
             c == captureUpvalue(m, frame.slots + index)
         IN IF isLocal # 0
            THEN fillUpvalues(
                     [c.m EXCEPT !.heap[closure].upvalues[i + 1] = c.ret],
                     closure, i + 1)
            ELSE fillUpvalues(
                     [m EXCEPT !.heap[closure].upvalues[i + 1] =
                         m.heap[frame.closure].upvalues[index + 1]],
                     closure, i + 1)
    ELSE m

OpClosure ==
    /\ Running /\ Byte(0) = "OP_CLOSURE"
    /\ LET function == AS_OBJ(READ_CONSTANT)
           c == newClosure(vm, function)
           m == fillUpvalues(push(c.m, OBJ_VAL(c.ret)), c.ret, 0)
       IN /\ Continue(m, ip + 2 + 2 * m.heap[c.ret].upvalueCount)
          /\ hist' = [hist EXCEPT
                 !.written =
                     [u \in DOMAIN @ \cup
                             {o \in (Len(vm.heap) + 1)..Len(m.heap) :
                                 m.heap[o].type = "OBJ_UPVALUE"} |->
                         IF u \in DOMAIN @ THEN @[u]
                         ELSE Deref(m, m.heap[u].location)],
                 !.captures = @ \cup
                     {[closure |-> c.ret, i |-> i,
                       slot |-> frame.slots + Byte(3 + 2 * i),
                       act |-> hist.act[vm.frameCount - 1]] :
                      i \in {j \in 0..(m.heap[c.ret].upvalueCount - 1) :
                                Byte(2 + 2 * j) # 0}}]

\* Faulty variant of appendItems: the list pushed on top of the items is
\* not counted, so that the loop reads peek(i - 1).
RECURSIVE appendItems_offByOne(_, _, _)
appendItems_offByOne(m, list, i) ==
    IF i > 0
    THEN appendItems_offByOne(appendToList(m, list, peek(m, i - 1)), list, i - 1)
    ELSE m

\* The first for loop of OP_BUILD_LIST: appendToList(list, peek(i)) for
\* i from itemCount down to 1.
RECURSIVE appendItems(_, _, _)
appendItems(m, list, i) ==
    IF i > 0 THEN appendItems(appendToList(m, list, peek(m, i)), list, i - 1)
    ELSE m

\* pop() n times.
RECURSIVE popN(_, _)
popN(m, n) == IF n > 0 THEN popN(pop(m), n - 1) ELSE m

OpBuildList ==
    /\ Running /\ Byte(0) = "OP_BUILD_LIST"
    /\ LET l == newList(vm)
           itemCount == Byte(1)
           m1 == appendItems(push(l.m, OBJ_VAL(l.ret)), l.ret, itemCount)
       IN /\ Continue(push(popN(pop(m1), itemCount), OBJ_VAL(l.ret)), ip + 2)
          /\ hist' = [hist EXCEPT !.built =
                         (l.ret :> [i \in 1..itemCount |->
                                       vm.stack[vm.stackTop - itemCount + i - 1]])
                         @@ @]

\* OP_INDEX_SUBSCR and OP_STORE_SUBSCR raise their errors without writing
\* the register ip back to frame->ip.
OpIndexSubscr ==
    /\ Running /\ Byte(0) = "OP_INDEX_SUBSCR"
    /\ LET oldIndex == popped(vm)
           oldList == popped(pop(vm))
           m == pop(pop(vm))
           list == AS_OBJ(oldList)
           index == ToInt(AS_NUMBER(oldIndex))
       IN IF ~IS_LIST(m, oldList)
          THEN Abort(runtimeError(m, "Invalid type to index into.", <<>>))
          ELSE IF ~IS_NUMBER(oldIndex)
          THEN Abort(runtimeError(m, "List index is not a number.", <<>>))
          ELSE IF ~isValidListIndex(m, list, index)
          THEN Abort(runtimeError(m, "List index out of range.", <<>>))
          ELSE Continue(push(m, indexFromList(m, list, index)), ip + 1)
    /\ UNCHANGED hist

OpStoreSubscr ==
    /\ Running /\ Byte(0) = "OP_STORE_SUBSCR"
    /\ LET item == popped(vm)
           oldIndex == popped(pop(vm))
           oldList == popped(pop(pop(vm)))
           m == pop(pop(pop(vm)))
           list == AS_OBJ(oldList)
           index == ToInt(AS_NUMBER(oldIndex))
       IN IF ~IS_LIST(m, oldList)
          THEN Abort(runtimeError(m, "Cannot store value in a non-list.", <<>>))
          ELSE IF ~IS_NUMBER(oldIndex)
          THEN Abort(runtimeError(m, "List index is not a number.", <<>>))
          ELSE IF ~isValidListIndex(m, list, index)
          THEN Abort(runtimeError(m, "Invalid list index.", <<>>))
          ELSE Continue(push(storeToList(m, list, index, item), item), ip + 1)
    /\ hist' = Unwritten(hist, vm')

OpCloseUpvalue ==
    /\ Running /\ Byte(0) = "OP_CLOSE_UPVALUE"
    /\ Continue(pop(closeUpvalues(vm, vm.stackTop - 1)), ip + 1)
    /\ UNCHANGED hist

\* Faulty variant of OP_RETURN: the cursor is not moved back to the frame's
\* base before the result is pushed.
OpReturn_keepCursor ==
    /\ Running /\ Byte(0) = "OP_RETURN"
    /\ LET value == popped(vm)
           m1 == closeUpvalues(pop(vm), frame.slots)
           m2 == [m1 EXCEPT !.frameCount = @ - 1]
           m3 == push(m2, value)
       IN IF m2.frameCount = 0
          THEN /\ vm' = pop(m2)
               /\ pc' = "idle"
               /\ result' = "INTERPRET_OK"
               /\ UNCHANGED <<ip, stderr, stdout, runs>>
          ELSE Continue(m3, m3.frames[m3.frameCount - 1].ip)
    /\ UNCHANGED hist

\* Faulty variant of OP_RETURN: the last frame's return leaves the script's
\* closure on the stack.
OpReturn_keepClosure ==
    /\ Running /\ Byte(0) = "OP_RETURN"
    /\ LET value == popped(vm)
           m1 == closeUpvalues(pop(vm), frame.slots)
           m2 == [m1 EXCEPT !.frameCount = @ - 1]
           m3 == push([m2 EXCEPT !.stackTop = frame.slots], value)
       IN IF m2.frameCount = 0
          THEN /\ vm' = m2
               /\ pc' = "idle"
               /\ result' = "INTERPRET_OK"
               /\ UNCHANGED <<ip, stderr, stdout, runs>>
          ELSE Continue(m3, m3.frames[m3.frameCount - 1].ip)
    /\ UNCHANGED hist

OpReturn ==
    /\ Running /\ Byte(0) = "OP_RETURN"
    /\ LET value == popped(vm)
           m1 == closeUpvalues(pop(vm), frame.slots)
           m2 == [m1 EXCEPT !.frameCount = @ - 1]
           m3 == push([m2 EXCEPT !.stackTop = frame.slots], value)
       IN IF m2.frameCount = 0
          THEN /\ vm' = pop(m2)
               /\ pc' = "idle"
               /\ result' = "INTERPRET_OK"
               /\ UNCHANGED <<ip, stderr, stdout, runs>>
          ELSE Continue(m3, m3.frames[m3.frameCount - 1].ip)
    /\ UNCHANGED hist

Step ==
    \/ OpConstant \/ OpNil \/ OpPop \/ OpGetLocal \/ OpSetLocal
    \/ OpGetGlobal \/ OpDefineGlobal \/ OpSetGlobal
    \/ OpGetUpvalue \/ OpSetUpvalue
    \/ OpEqual \/ OpAdd \/ OpNegate \/ OpJump \/ OpJumpIfFalse
    \/ OpCall \/ OpClosure \/ OpBuildList
    \/ OpIndexSubscr \/ OpStoreSubscr \/ OpCloseUpvalue \/ OpReturn

(***************************************************************************)
(* Teardown.  free() gives the block of an object back to the allocator:   *)
(* vm.heap[o] becomes Freed and o is appended to vm.released, the blocks   *)
(* released so far, in order.  The host calls freeVM() when no interpret() *)
(* is running, and nothing after it.                                       *)
(***************************************************************************)
Freed == [type |-> "FREED"]

free(m, object) ==
    [m EXCEPT !.heap[object] = Freed, !.released = Append(@, object)]

\* The interior storage (upvalue array, chunk, item array) goes with the
\* object; a string is released only if it owns its characters.
freeObject(m, object) ==
    LET type == m.heap[object].type
    IN CASE type = "OBJ_CLOSURE" -> free(m, object)
         [] type = "OBJ_FUNCTION" -> free(m, object)
         [] type = "OBJ_LIST" -> free(m, object)
         [] type = "OBJ_NATIVE" -> free(m, object)
         [] type = "OBJ_STRING" ->
                IF m.heap[object].ownsChars THEN free(m, object) ELSE m
         [] type = "OBJ_UPVALUE" -> free(m, object)

\* The while loop of freeObjects from object on.
RECURSIVE freeObjectsFrom(_, _)
freeObjectsFrom(m, object) ==
    IF object # NULL
    THEN LET next == m.heap[object].obj_next
         IN freeObjectsFrom(freeObject(m, object), next)
    ELSE m

freeObjects(m) == freeObjectsFrom(m, m.objects)

freeTable(table) == [k \in {} |-> NIL_VAL]

FreeVM ==
    /\ pc = "idle"
    /\ ~vm.undefined
    /\ vm' = freeObjects([vm EXCEPT !.globals = freeTable(@), !.strings = {}])
    /\ pc' = "freed"
    /\ UNCHANGED <<ip, result, stderr, stdout, runs, hist>>

Next == (\E source \in Sources : Interpret(source)) \/ Step \/ FreeVM

Spec == Init /\ [][Next]_vars

\* The host also submits the program "wide", whose recursion takes five
\* stack slots per call.
NextWide ==
    \/ \E source \in Sources \cup {"wide"} : Interpret(source)
    \/ Step
    \/ FreeVM

SpecWide == Init /\ [][NextWide]_vars

\* A host that submits the programs exercising single instructions.
OpSources == {"nest", "pair", "blocks", "assign", "del", "subscr", "store",
              "setitem", "concat", "mixed", "truthy"}

NextOps ==
    \/ \E source \in OpSources : Interpret(source)
    \/ Step
    \/ FreeVM

SpecOps == Init /\ [][NextOps]_vars

(***************************************************************************)
(* Properties.                                                             *)
(***************************************************************************)
Closures == {o \in 1..Len(vm.heap) : vm.heap[o].type = "OBJ_CLOSURE"}

\* The upvalues some closure refers to.
Referenced ==
    UNION {{vm.heap[c].upvalues[i] : i \in 1..vm.heap[c].upvalueCount} :
              c \in Closures} \ {NULL}

IsOpen(m, u) == m.heap[u].location.seg = "stack"
IsClosed(m, u) == m.heap[u].location = ClosedField(u)
SlotOf(m, u) == m.heap[u].location.i

\* C1: the open-upvalue list is strictly descending by stack slot, and
\* every entry of it points at a slot strictly below the stack cursor.
C1_OpenListDescending ==
    LET l == OpenList(vm)
    IN /\ \A k \in 1..Len(l) :
             IsOpen(vm, l[k]) /\ SlotOf(vm, l[k]) < vm.stackTop
       /\ \A k \in 1..(Len(l) - 1) : SlotOf(vm, l[k]) > SlotOf(vm, l[k + 1])

\* Three upvalues are open at once, the one captured last lying between
\* the two captured before it.
C1_Witness ==
    LET l == OpenList(vm)
    IN /\ Len(l) = 3
       /\ l[2] > l[1] /\ l[2] > l[3]

\* C2: every upvalue a closure refers to is either open (it points at a
\* stack slot below the cursor and is linked in the open-upvalue list) or
\* closed (it points at its own closed field), also once an interpret()
\* call has ended in a runtime error.
C2_OpenOrClosed ==
    \A u \in Referenced :
        \/ IsOpen(vm, u) /\ SlotOf(vm, u) < vm.stackTop /\ u \in OpenSet(vm)
        \/ IsClosed(vm, u)

\* The upvalue that the capture recorded as p put in its closure.
Held(p) == vm.heap[p.closure].upvalues[p.i + 1]

\* C3 as stated: two closures built by OP_CLOSURE with isLocal pairs naming
\* the same slot of the same live frame hold the identical upvalue object.
C3_SameSlotSameUpvalue ==
    \A p, q \in hist.captures :
        (p.act = q.act /\ p.slot = q.slot /\ Live(p.act)) => Held(p) = Held(q)

\* What OP_CLOSURE's capture of the current frame's slot k into entry i of
\* the new closure does: it takes the open upvalue of that slot when the
\* list has one, and otherwise makes a new one, linked in the list, which
\* stays strictly descending.
CaptureTakesOrLinks(i, k) ==
    LET existing == {u \in OpenSet(vm) : SlotOf(vm, u) = k}
        got == vm'.heap[Len(vm.heap) + 1].upvalues[i + 1]
    IN /\ existing # {} => got \in existing
       /\ existing = {} =>
             /\ got > Len(vm.heap)
             /\ got \in OpenSet(vm')
             /\ vm'.heap[got].location = StackSlot(k)
       /\ C1_OpenListDescending'

\* C3 (amended): captureUpvalue(slot) returns the upvalue already in the
\* open list for that slot when one exists, and otherwise creates one and
\* links it at its sorted position; so any two closures built by OP_CLOSURE
\* with isLocal pairs naming the same slot of the same live frame hold the
\* identical upvalue object as long as neither upvalue has been closed.
C3_CaptureShares ==
    /\ [](\A p, q \in hist.captures :
             (p.act = q.act /\ p.slot = q.slot /\ Live(p.act)
                 /\ IsOpen(vm, Held(p)) /\ IsOpen(vm, Held(q)))
             => Held(p) = Held(q))
    /\ [][OpClosure =>
             \A i \in 0..(vm.heap[AS_OBJ(READ_CONSTANT)].upvalueCount - 1) :
                 Byte(2 + 2 * i) # 0 =>
                     CaptureTakesOrLinks(i, frame.slots + Byte(3 + 2 * i))]_vars

\* Two closures of one live frame share the open upvalue of a slot.
C3_Witness ==
    \E p, q \in hist.captures :
        /\ p.closure # q.closure
        /\ p.act = q.act /\ p.slot = q.slot /\ Live(p.act)
        /\ Held(p) = Held(q) /\ IsOpen(vm, Held(p))

\* C4: a GET_UPVALUE through any closure that captured a variable pushes
\* the value most recently written to that variable (by its initialisation,
\* by SET_LOCAL of the enclosing frame or by SET_UPVALUE through any closure
\* sharing it), before and after the variable is closed.
C4_ReadsLastWritten ==
    [][OpGetUpvalue =>
          vm'.stack[vm.stackTop] =
              hist.written[vm.heap[frame.closure].upvalues[Byte(1) + 1]]]_vars

Upvalues == {o \in 1..Len(vm.heap) : vm.heap[o].type = "OBJ_UPVALUE"}

\* C5: closeUpvalues(last), as called by OP_CLOSE_UPVALUE and OP_RETURN,
\* closes exactly the open upvalues whose slot is at or above last: each
\* gets the value of its slot in its closed field, points at that field and
\* leaves the open list; the open upvalues below last stay open, in the
\* list, with their location; no other upvalue changes.
C5_ClosesExactly ==
    [][(OpCloseUpvalue \/ OpReturn) =>
          LET last == IF Byte(0) = "OP_CLOSE_UPVALUE" THEN vm.stackTop - 1
                      ELSE frame.slots
          IN /\ \A u \in OpenSet(vm) :
                    IF SlotOf(vm, u) >= last
                    THEN /\ vm'.heap[u].closed = vm.stack[SlotOf(vm, u)]
                         /\ IsClosed(vm', u)
                         /\ u \notin OpenSet(vm')
                    ELSE /\ IsOpen(vm', u)
                         /\ u \in OpenSet(vm')
                         /\ vm'.heap[u].location = vm.heap[u].location
             /\ \A u \in Upvalues \ OpenSet(vm) : vm'.heap[u] = vm.heap[u]
             /\ OpenSet(vm') \subseteq OpenSet(vm)]_vars

\* A return has closed the upvalue of the returning frame (it holds the
\* value 4 of its variable) and left the three of the caller open.
C5_Witness ==
    /\ Len(OpenList(vm)) = 3
    /\ \E u \in Referenced :
          IsClosed(vm, u) /\ vm.heap[u].closed = NUMBER_VAL(FromInt(4))

\* C6: the value-stack depth never exceeds STACK_MAX, and push never
\* writes at or beyond index STACK_MAX.
C6_StackWithinBounds == vm.stackTop <= STACK_MAX /\ ~vm.undefined

\* The instruction at ip is a CALL whose callee is a closure / a native.
ClosureCall == Running /\ Byte(0) = "OP_CALL" /\ IS_CLOSURE(vm, peek(vm, Byte(1)))
NativeCall == Running /\ Byte(0) = "OP_CALL" /\ IS_NATIVE(vm, peek(vm, Byte(1)))

\* The arity of the function of the closure being called.
CalleeArity == vm.heap[vm.heap[AS_OBJ(peek(vm, Byte(1)))].function].arity

\* The step ends run() with the runtime error whose message has this format.
Raised(format) ==
    /\ result' = "INTERPRET_RUNTIME_ERROR"
    /\ pc' = "idle"
    /\ stderr'.format = format

\* The step pushes no frame: the records of the frame array keep their
\* closure and base, and the count does not grow.
NoFramePushed ==
    /\ vm'.frameCount <= vm.frameCount
    /\ \A i \in 0..(FRAMES_MAX - 1) :
          /\ vm'.frames[i].closure = vm.frames[i].closure
          /\ vm'.frames[i].slots = vm.frames[i].slots

\* C7 as stated: frameCount is between 0 and FRAMES_MAX in every reachable
\* state; a CALL of a closure executed while frameCount equals FRAMES_MAX
\* raises 'Stack overflow.' and pushes no frame, and one executed below
\* FRAMES_MAX with matching arity increases frameCount by exactly one.
C7_OverflowAtFramesMax ==
    /\ [](vm.frameCount \in 0..FRAMES_MAX)
    /\ [][ClosureCall =>
             /\ vm.frameCount = FRAMES_MAX =>
                    Raised("Stack overflow.") /\ NoFramePushed
             /\ (vm.frameCount < FRAMES_MAX /\ Byte(1) = CalleeArity) =>
                    vm'.frameCount = vm.frameCount + 1]_vars

\* C7 (amended): frameCount is between 0 and FRAMES_MAX in every reachable
\* state; a CALL of a closure executed while frameCount equals FRAMES_MAX
\* pushes no frame and raises 'Stack overflow.' when the argument count
\* matches the arity (the arity error when it does not), and one executed
\* below FRAMES_MAX with matching arity increases frameCount by exactly one.
C7_FrameCountBounded ==
    /\ [](vm.frameCount \in 0..FRAMES_MAX)
    /\ [][ClosureCall =>
             /\ vm.frameCount = FRAMES_MAX =>
                    /\ NoFramePushed
                    /\ IF Byte(1) = CalleeArity
                       THEN Raised("Stack overflow.")
                       ELSE Raised("Expected %d arguments but got %d.")
             /\ (vm.frameCount < FRAMES_MAX /\ Byte(1) = CalleeArity) =>
                    vm'.frameCount = vm.frameCount + 1]_vars

\* A call with all FRAMES_MAX frames in use has ended the run.
C7_Witness ==
    /\ result = "INTERPRET_RUNTIME_ERROR"
    /\ stderr.format = "Stack overflow."
    /\ Len(stderr.trace) = FRAMES_MAX

\* C8: after OP_RETURN in a frame that is not the last one, the stack
\* cursor is the returning frame's base plus one, the slot at that base,
\* which held the callee, holds the popped return value, frameCount is one
\* lower, and execution resumes in the caller just after the operand byte
\* of the CALL that the caller executed.
C8_ReturnResumesCaller ==
    [][(Running /\ Byte(0) = "OP_RETURN" /\ vm.frameCount > 1) =>
          /\ vm'.stackTop = frame.slots + 1
          /\ vm.stack[frame.slots] = OBJ_VAL(frame.closure)
          /\ vm'.stack[frame.slots] = popped(vm)
          /\ vm'.frameCount = vm.frameCount - 1
          /\ pc' = "running"
          /\ ip' = hist.site[vm.frameCount - 2] + 2]_vars

\* A called function has just returned a closure whose variable is closed:
\* the caller is past its CALL with the closure on top of the stack.
C8_Witness ==
    /\ pc = "running"
    /\ ip = hist.site[vm.frameCount - 1] + 2
    /\ IS_CLOSURE(vm, peek(vm, 0))
    /\ LET closure == vm.heap[AS_OBJ(peek(vm, 0))]
       IN closure.upvalueCount = 1 /\ IsClosed(vm, closure.upvalues[1])

\* The new top frame of a call of a closure: its base and its ip, the
\* callee in its slot 0 and the arguments, in push order, in slots 1..arity.
FramePushed ==
    LET argCount == Byte(1)
        callee == peek(vm, argCount)
        top == vm'.frames[vm'.frameCount - 1]
    IN /\ vm'.frameCount = vm.frameCount + 1
       /\ pc' = "running"
       /\ top.closure = AS_OBJ(callee)
       /\ top.slots = vm.stackTop - argCount - 1
       /\ top.ip = 0 /\ ip' = 0
       /\ vm'.stackTop = vm.stackTop
       /\ vm'.stack[top.slots] = callee
       /\ \A j \in 1..CalleeArity :
             vm'.stack[top.slots + j] = vm.stack[vm.stackTop - argCount + j - 1]

\* The arity error of a call of a closure, N the arity and M the operand.
ArityErrorRaised ==
    /\ Raised("Expected %d arguments but got %d.")
    /\ stderr'.args = <<CalleeArity, Byte(1)>>
    /\ NoFramePushed

\* C9 as stated: CALL with operand argCount on a closure: when argCount
\* differs from the arity, 'Expected N arguments but got M.' is raised and
\* no frame is pushed; otherwise the new top frame has base = cursor -
\* argCount - 1 and ip at the start of the chunk, slot 0 of the frame being
\* the callee and slots 1..arity the arguments in push order.
C9_CallPushesFrame ==
    [][ClosureCall =>
          IF Byte(1) # CalleeArity THEN ArityErrorRaised ELSE FramePushed]_vars

\* C9 (amended): as C9, the frame being pushed when argCount equals the
\* arity and frameCount is below FRAMES_MAX; with frameCount at FRAMES_MAX
\* no frame is pushed.
C9_CallPushesFrameBelowMax ==
    [][ClosureCall =>
          IF Byte(1) # CalleeArity THEN ArityErrorRaised
          ELSE IF vm.frameCount < FRAMES_MAX THEN FramePushed
          ELSE NoFramePushed]_vars

\* A function of one parameter has just been called: the frame starts at
\* the callee's slot and the argument is the slot above it.
C9_Witness ==
    /\ pc = "running" /\ ip = 0 /\ vm.frameCount >= 2
    /\ vm.heap[vm.heap[frame.closure].function].arity = 1
    /\ vm.stack[frame.slots] = OBJ_VAL(frame.closure)
    /\ vm.stackTop = frame.slots + 2

\* C10: CALL with operand argCount on a native: the native is invoked only
\* when its arity is -1 or argCount, and otherwise a runtime error is
\* raised and nothing the natives do happens; it receives the arguments in
\* push order from args[0]: println prints them in that order, append adds
\* the second to the list that is the first, delete shortens the list that
\* is the first, readFile yields the file's text; on success the cursor is
\* argCount lower, the result is in the callee's slot and frameCount is
\* unchanged; on a native error the CALL ends in a runtime error.
C10_NativeCall ==
    [][NativeCall =>
          LET argCount == Byte(1)
              native == vm.heap[AS_OBJ(peek(vm, argCount))]
              args == vm.stackTop - argCount
              pushed == [i \in 1..argCount |-> vm.stack[args + i - 1]]
              got == vm'.stack[args - 1]
          IN IF native.arity # -1 /\ native.arity # argCount
             THEN /\ Raised("Expected %d arguments but got %d.")
                  /\ vm'.heap = vm.heap
                  /\ stdout' = stdout
             ELSE \/ /\ pc' = "running"
                     /\ vm'.stackTop = vm.stackTop - argCount
                     /\ vm'.frameCount = vm.frameCount
                     /\ ip' = ip + 2
                     /\ CASE native.function = "clockNative" -> IS_NUMBER(got)
                          [] native.function = "printlnNative" ->
                                IS_NIL(got) /\ stdout' = Append(stdout, pushed)
                          [] native.function = "readFileNative" ->
                                /\ IS_STRING(vm, pushed[1])
                                /\ IS_STRING(vm', got)
                                /\ vm'.heap[AS_OBJ(got)].chars = "data"
                          [] native.function = "appendNative" ->
                                LET list == AS_OBJ(pushed[1])
                                IN /\ IS_NIL(got)
                                   /\ vm'.heap[list].count = vm.heap[list].count + 1
                                   /\ vm'.heap[list].items[vm'.heap[list].count]
                                          = pushed[2]
                          [] native.function = "deleteNative" ->
                                LET list == AS_OBJ(pushed[1])
                                IN /\ IS_NIL(got)
                                   /\ vm'.heap[list].count = vm.heap[list].count - 1
                  \/ /\ native.function \notin {"clockNative", "printlnNative"}
                     /\ Raised("Native error: %s")
                     /\ vm'.frameCount = 0]_vars

\* println has returned from a call with two arguments and printed both.
C10_Witness ==
    /\ pc = "running"
    /\ stdout # <<>>
    /\ Len(stdout[Len(stdout)]) = 2

\* The global named chars is bound to a closure.
GlobalIsClosure(chars) ==
    \E k \in DOMAIN vm.globals :
        vm.heap[k].chars = chars /\ IS_CLOSURE(vm, vm.globals[k])

\* The source last interpreted is a program that has no error: one that
\* uses nothing but what it declares, or "clobber", which adds two numbers
\* after calling s, when s is bound to a function.
RanErrorFree ==
    \/ hist.source \in {"counter", "pair", "blocks", "multi"}
    \/ hist.source = "clobber" /\ GlobalIsClosure("s")

\* The state every runtime error leaves: run() has returned the error
\* result with the stack, the frames and the open list empty.
ErrorResetsVm ==
    (pc = "idle" /\ result = "INTERPRET_RUNTIME_ERROR") =>
        /\ vm.stackTop = 0
        /\ vm.frameCount = 0
        /\ vm.openUpvalues = NULL

\* C11: every runtime error leaves the VM with an empty value stack,
\* frameCount 0 and an empty open-upvalue list and makes interpret return
\* the runtime-error result, and a following interpret() of a program that
\* has no error runs to completion and returns OK.
C11_ErrorLeavesVmUsable ==
    /\ ErrorResetsVm
    /\ (pc = "idle" /\ hist.after = "INTERPRET_RUNTIME_ERROR" /\ RanErrorFree)
           => result = "INTERPRET_OK"

\* The number of bytes of the instruction at ip, for the instructions
\* that can raise a runtime error.
InstructionLength ==
    IF Byte(0) \in {"OP_GET_GLOBAL", "OP_SET_GLOBAL", "OP_CALL"} THEN 2 ELSE 1

\* The function whose closure frame i of the current machine runs.
FrameFunction(i) == vm.heap[vm.heap[vm.frames[i].closure].function]

\* The step is a runtime error raised by the dispatch loop.
ErrorStep == Running /\ pc' = "idle" /\ result' = "INTERPRET_RUNTIME_ERROR"

\* C12: for every runtime error raised by the dispatch loop, the list
\* errors of INDEX_SUBSCR and STORE_SUBSCR included, the trace has the
\* frames from the top one to the bottom one, and the line printed for a
\* frame is the line of the byte at that frame's instruction pointer minus
\* one, the top frame's instruction pointer being the position just after
\* the last byte of the failing instruction.
C12_TraceLines ==
    [][ErrorStep =>
          /\ Len(stderr'.trace) = vm.frameCount
          /\ \A k \in 1..vm.frameCount :
                LET i == vm.frameCount - k
                    at == IF k = 1 THEN ip + InstructionLength
                          ELSE vm.frames[i].ip
                IN stderr'.trace[k] =
                      [line |-> "line " \o ToString(
                                    getLine(FrameFunction(i).chunk, at - 1)),
                       name |-> IF FrameFunction(i).name = NULL THEN "script"
                                ELSE vm.heap[FrameFunction(i).name].chars]]_vars

\* The names that have a binding in the globals table of machine m.
GlobalNames(m) == {m.heap[k].chars : k \in DOMAIN m.globals}

\* C13: SET_GLOBAL on a name that has no binding raises a runtime error
\* and leaves the globals table without a binding for that name and with
\* every other binding unchanged, and a later GET_GLOBAL of the name still
\* fails as undefined; SET_GLOBAL on a defined name replaces its value and
\* leaves the stack depth unchanged with the assigned value still on top.
C13_SetGlobal ==
    [][/\ (Running /\ Byte(0) = "OP_SET_GLOBAL") =>
             LET name == READ_STRING
             IN IF name \notin DOMAIN vm.globals
                THEN /\ Raised("Undefined variable '%s'.")
                     /\ stderr'.args = <<vm.heap[name].chars>>
                     /\ vm'.globals = vm.globals
                     /\ hist'.bound = hist.bound
                ELSE /\ pc' = "running"
                     /\ DOMAIN vm'.globals = DOMAIN vm.globals
                     /\ vm'.globals[name] = peek(vm, 0)
                     /\ \A k \in DOMAIN vm.globals \ {name} :
                           vm'.globals[k] = vm.globals[k]
                     /\ vm'.stackTop = vm.stackTop
                     /\ peek(vm', 0) = peek(vm, 0)
       /\ (Running /\ Byte(0) = "OP_GET_GLOBAL"
              /\ vm.heap[READ_STRING].chars \notin DOMAIN hist.bound) =>
             Raised("Undefined variable '%s'")]_vars

\* An assignment to the undefined global u has just failed: the table has
\* no binding for u.
C13_Witness ==
    /\ pc = "idle" /\ result = "INTERPRET_RUNTIME_ERROR"
    /\ stderr.format = "Undefined variable '%s'."
    /\ stderr.args = <<"u">>
    /\ "u" \notin GlobalNames(vm)

(***************************************************************************)
(* C14.  Strings are interned: in every state, two string objects of the   *)
(* heap with equal length and equal bytes are one and the same object, and *)
(* every string object of the heap is an entry of the intern table         *)
(* vm.strings.  The strings of the heap are those that copyString and      *)
(* takeString made: the names of the natives, the names and literals of    *)
(* the compiled sources, the messages of native errors, the content        *)
(* readFile yields and the results of OP_ADD on two strings.               *)
(***************************************************************************)
StringObjects(m) == {o \in DOMAIN m.heap : m.heap[o].type = "OBJ_STRING"}

C14_InternCanonical ==
    /\ \A o1, o2 \in StringObjects(vm) :
           (vm.heap[o1].length = vm.heap[o2].length
            /\ vm.heap[o1].chars = vm.heap[o2].chars) => o1 = o2
    /\ StringObjects(vm) \subseteq vm.strings

\* The source "concat" is about to call println: "a" + "b" was found equal
\* to the literal "ab" (they are one object), and "a" + "c", of which the
\* source has no literal, is an entry of the intern table.
C14_Witness ==
    /\ Running /\ hist.source = "concat" /\ Byte(0) = "OP_CALL"
    /\ peek(vm, 1) = BOOL_VAL(TRUE)
    /\ IS_STRING(vm, peek(vm, 0))
    /\ vm.heap[AS_OBJ(peek(vm, 0))].chars = "ac"
    /\ AS_OBJ(peek(vm, 0)) \in vm.strings
    /\ \E o \in StringObjects(vm) : vm.heap[o].chars = "ab"

(***************************************************************************)
(* C15.  OP_BUILD_LIST with operand N, on a stack that ends in v1, ...,    *)
(* vN (v1 the deepest), leaves in place of these N values one list that    *)
(* did not exist before, of count N and with items v1, ..., vN in that     *)
(* order; the depth changes by -N + 1 and the slots below are untouched.   *)
(* An OP_INDEX_SUBSCR that follows, on that list as it was built and with  *)
(* an index i in 0..N-1, replaces the list and the index by v(i+1).        *)
(***************************************************************************)
BuildListStep ==
    LET N == Byte(1)
        list == AS_OBJ(peek(vm', 0))
    IN /\ vm'.stackTop = vm.stackTop - N + 1
       /\ IS_LIST(vm', peek(vm', 0))
       /\ list \notin DOMAIN vm.heap
       /\ vm'.heap[list].count = N
       /\ \A i \in 1..N :
              vm'.heap[list].items[i] = vm.stack[vm.stackTop - N + i - 1]
       /\ \A k \in 0..(vm.stackTop - N - 1) : vm'.stack[k] = vm.stack[k]

\* The operands of the OP_INDEX_SUBSCR at ip are a list that OP_BUILD_LIST
\* made, not written to since, and a number that is an index into it.
IndexesBuiltList ==
    /\ Running /\ Byte(0) = "OP_INDEX_SUBSCR"
    /\ IS_LIST(vm, peek(vm, 1)) /\ IS_NUMBER(peek(vm, 0))
    /\ AS_OBJ(peek(vm, 1)) \in DOMAIN hist.built
    /\ \E i \in 0..(Len(hist.built[AS_OBJ(peek(vm, 1))]) - 1) :
           AS_NUMBER(peek(vm, 0)) = FromInt(i)

C15_BuildListThenIndex ==
    [][/\ (Running /\ Byte(0) = "OP_BUILD_LIST") => BuildListStep
       /\ IndexesBuiltList =>
              /\ pc' = "running"
              /\ vm'.stackTop = vm.stackTop - 1
              /\ \A i \in 0..(Len(hist.built[AS_OBJ(peek(vm, 1))]) - 1) :
                     AS_NUMBER(peek(vm, 0)) = FromInt(i) =>
                         peek(vm', 0) = hist.built[AS_OBJ(peek(vm, 1))][i + 1]
      ]_vars

\* The source "subscr" has built L from 1, 2, 3 and is about to print L[0],
\* L[1] and L[2], which the three OP_INDEX_SUBSCR left on the stack.
C15_Witness ==
    /\ Running /\ hist.source = "subscr"
    /\ Byte(0) = "OP_CALL" /\ Byte(1) = 3
    /\ peek(vm, 2) = NUMBER_VAL(FromInt(1))
    /\ peek(vm, 1) = NUMBER_VAL(FromInt(2))
    /\ peek(vm, 0) = NUMBER_VAL(FromInt(3))
    /\ \E l \in DOMAIN hist.built :
           /\ hist.built[l] = <<NUMBER_VAL(FromInt(1)), NUMBER_VAL(FromInt(2)),
                               NUMBER_VAL(FromInt(3))>>
           /\ vm.heap[l].count = 3

(***************************************************************************)
(* C16.  A call delete(L, i) of the native, L a list and i a number.  With *)
(* i an index of L (an integer, 0 <= i < count) the item at i is removed:  *)
(* count is one less, the items before i stay, every item formerly at      *)
(* j > i is at j - 1, the old last slot holds nil, and the call yields     *)
(* nil.  With i out of range (i < 0 or i >= count, hence any i on an       *)
(* empty list) the call is an error and count and items are unchanged.     *)
(***************************************************************************)
\* The OP_CALL at ip calls the native delete with a list and a number.
DeleteCall ==
    /\ Running /\ Byte(0) = "OP_CALL" /\ Byte(1) = 2
    /\ IS_NATIVE(vm, peek(vm, 2))
    /\ vm.heap[AS_OBJ(peek(vm, 2))].function = "deleteNative"
    /\ IS_LIST(vm, peek(vm, 1)) /\ IS_NUMBER(peek(vm, 0))

DeleteStep ==
    LET L == AS_OBJ(peek(vm, 1))
        d == AS_NUMBER(peek(vm, 0))
        old == vm.heap[L]
        new == vm'.heap[L]
    IN /\ \A i \in 0..(old.count - 1) :
              d = FromInt(i) =>
                  /\ pc' = "running"
                  /\ peek(vm', 0) = NIL_VAL
                  /\ new.count = old.count - 1
                  /\ \A j \in 0..(i - 1) : new.items[j + 1] = old.items[j + 1]
                  /\ \A j \in (i + 1)..(old.count - 1) :
                         new.items[j] = old.items[j + 1]
                  /\ new.items[old.count] = NIL_VAL
       /\ (d < FromInt(0) \/ d >= FromInt(old.count)) =>
              /\ result' = "INTERPRET_RUNTIME_ERROR"
              /\ new.count = old.count
              /\ new.items = old.items

C16_Delete == [][DeleteCall => DeleteStep]_vars

\* The same with the out-of-range case of the doubles between -1 and 0 left
\* out: it holds of every call.
DeleteStepWhole ==
    LET d == AS_NUMBER(peek(vm, 0))
    IN (d > FromInt(-1) /\ d < FromInt(0)) \/ DeleteStep

DeleteAtWholeIndexes == [][DeleteCall => DeleteStepWhole]_vars

(***************************************************************************)
(* C17.  A call append(L, v) of the native, whatever OP_BUILD_LIST,        *)
(* append, delete and OP_STORE_SUBSCR did to the list L before, increases  *)
(* the count of L by exactly one, leaves the items it had unchanged and    *)
(* makes the item at the new index count - 1 equal to v.  In every state   *)
(* every list has 0 <= count <= capacity, and the capacity of a list       *)
(* changes only by growing, in an append to that list executed while its   *)
(* count equals its capacity.                                              *)
(***************************************************************************)
ListObjects(m) == {o \in DOMAIN m.heap : m.heap[o].type = "OBJ_LIST"}

CountWithinCapacity ==
    \A l \in ListObjects(vm) :
        0 <= vm.heap[l].count /\ vm.heap[l].count <= vm.heap[l].capacity

\* The OP_CALL at ip calls the native append with a list and a value.
AppendCall ==
    /\ Running /\ Byte(0) = "OP_CALL" /\ Byte(1) = 2
    /\ IS_NATIVE(vm, peek(vm, 2))
    /\ vm.heap[AS_OBJ(peek(vm, 2))].function = "appendNative"
    /\ IS_LIST(vm, peek(vm, 1))

AppendStep ==
    LET old == vm.heap[AS_OBJ(peek(vm, 1))]
        new == vm'.heap[AS_OBJ(peek(vm, 1))]
    IN /\ pc' = "running"
       /\ new.count = old.count + 1
       /\ \A j \in 1..old.count : new.items[j] = old.items[j]
       /\ new.items[new.count] = peek(vm, 0)

\* Of every list that the step does not release.
CapacityStep ==
    \A l \in ListObjects(vm) \cap ListObjects(vm') :
        vm'.heap[l].capacity # vm.heap[l].capacity =>
            /\ AppendCall /\ l = AS_OBJ(peek(vm, 1))
            /\ vm.heap[l].count = vm.heap[l].capacity
            /\ vm'.heap[l].capacity > vm.heap[l].capacity

C17_Append ==
    /\ []CountWithinCapacity
    /\ [][(AppendCall => AppendStep) /\ CapacityStep]_vars

\* The source "grow" has run to its end: its list of seven items took an
\* append within its capacity of 8, an append that found it full and grew
\* it to 16, a delete, a store and one more append.
C17_Witness ==
    /\ hist.source = "grow" /\ pc = "idle" /\ result = "INTERPRET_OK"
    /\ \E l \in ListObjects(vm) :
           /\ vm.heap[l].count = 9 /\ vm.heap[l].capacity = 16
           /\ vm.heap[l].items[1] = NUMBER_VAL(FromInt(4))
           /\ vm.heap[l].items[8] = NUMBER_VAL(FromInt(3))
           /\ vm.heap[l].items[9] = NUMBER_VAL(FromInt(5))

(***************************************************************************)
(* C18.  interpret() of a source that compiles wraps the script's function *)
(* in a new closure that occupies stack slot 0, with frame 0 based at that *)
(* slot.  The OP_RETURN of the last frame finds above that closure nothing *)
(* but the value it returns, closes every upvalue of the open list, pops   *)
(* the closure and finishes with INTERPRET_OK; and whenever interpret()    *)
(* has returned INTERPRET_OK, which it does unless a runtime error was     *)
(* raised, the value stack is empty, frameCount is 0 and the open-upvalue  *)
(* list is empty.                                                          *)
(***************************************************************************)
ReturnedOk ==
    (pc = "idle" /\ result = "INTERPRET_OK") =>
        /\ vm.stackTop = 0
        /\ vm.frameCount = 0
        /\ vm.openUpvalues = NULL

\* interpret() has compiled its source and entered run().
EntersRun == pc = "idle" /\ pc' = "running"

ScriptInSlotZero ==
    LET closure == vm'.frames[0].closure
    IN /\ vm'.frameCount = 1 /\ vm'.stackTop = 1
       /\ vm'.frames[0].slots = 0
       /\ vm'.stack[0] = OBJ_VAL(closure)
       /\ closure \notin DOMAIN vm.heap
       /\ vm'.heap[closure].type = "OBJ_CLOSURE"
       /\ vm'.heap[closure].function \notin DOMAIN vm.heap
       /\ vm'.heap[vm'.heap[closure].function].name = NULL
       /\ ip' = 0

\* The OP_RETURN at ip is that of the last frame.
LastReturn == Running /\ Byte(0) = "OP_RETURN" /\ vm.frameCount = 1

LastReturnStep ==
    /\ frame.slots = 0 /\ vm.stackTop = 2
    /\ vm.stack[0] = OBJ_VAL(frame.closure)
    /\ \A u \in OpenSet(vm) :
           /\ IsClosed(vm', u)
           /\ vm'.heap[u].closed = vm.stack[SlotOf(vm, u)]
    /\ pc' = "idle" /\ result' = "INTERPRET_OK"
    /\ vm'.stackTop = 0

\* A run ends with INTERPRET_OK unless it raises a runtime error.
EndsRun == pc = "running" /\ pc' = "idle"

C18_ErrorFreeRun ==
    /\ []ReturnedOk
    /\ [][/\ EntersRun => ScriptInSlotZero
          /\ LastReturn => LastReturnStep
          /\ EndsRun => \/ result' = "INTERPRET_OK" /\ stderr' = stderr
                        \/ result' = "INTERPRET_RUNTIME_ERROR"
         ]_vars

\* The source "pair", whose function pair returns while two closures hold
\* its local x open, has returned INTERPRET_OK: g and s are bound to those
\* closures, and their upvalue is closed.
C18_Witness ==
    /\ pc = "idle" /\ result = "INTERPRET_OK" /\ hist.source = "pair"
    /\ vm.stackTop = 0 /\ vm.frameCount = 0 /\ vm.openUpvalues = NULL
    /\ GlobalIsClosure("g") /\ GlobalIsClosure("s")
    /\ \E u \in Upvalues : IsClosed(vm, u) /\ u \in Referenced

(***************************************************************************)
(* C19.  Until teardown the object list, followed from vm.objects along    *)
(* obj.next, holds every object the allocator has made (strings,           *)
(* functions, natives, closures, upvalues, lists) exactly once, the newest *)
(* first, each with its mark bit clear: every allocation prepends.         *)
(* freeVM() ends: its walk of the list visits every object exactly once    *)
(* and releases each exactly once, in the order of the list.               *)
(***************************************************************************)
\* The objects reached from object along obj.next, at most fuel of them.
RECURSIVE ObjectsFrom(_, _, _)
ObjectsFrom(m, object, fuel) ==
    IF object = NULL \/ fuel = 0 THEN <<>>
    ELSE <<object>> \o ObjectsFrom(m, m.heap[object].obj_next, fuel - 1)

\* The object list; it has more entries than there are objects if following
\* obj.next does not come to NULL.
ObjectList(m) == ObjectsFrom(m, m.objects, Len(m.heap) + 1)

\* Addresses being given in allocation order, the list holds every object
\* once, the newest first, exactly if its head is the newest object and
\* obj.next of each object is the object allocated just before it (NULL for
\* the first); ObjectList(vm) is then Len(vm.heap), ..., 2, 1.
ObjectsLinked ==
    pc # "freed" =>
        /\ vm.objects = Len(vm.heap)
        /\ \A o \in DOMAIN vm.heap :
               vm.heap[o].obj_next = o - 1 /\ ~vm.heap[o].isMarked
        /\ vm.released = <<>>

\* A step links each object it allocates in front of the head as it was,
\* and leaves the links of the objects that existed.
AllocationPrepends ==
    pc' # "freed" =>
        /\ Len(vm'.heap) >= Len(vm.heap)
        /\ vm'.objects = Len(vm'.heap)
        /\ \A o \in (Len(vm.heap) + 1)..Len(vm'.heap) :
               /\ vm'.heap[o].obj_next =
                      IF o = Len(vm.heap) + 1 THEN vm.objects ELSE o - 1
               /\ ~vm'.heap[o].isMarked
        /\ \A o \in DOMAIN vm.heap :
               vm'.heap[o].obj_next = vm.heap[o].obj_next

\* freeVM() releases the objects in the order of the list; as many blocks
\* are released as there are objects and each object is among them, hence
\* each exactly once.
TeardownStep ==
    (pc = "idle" /\ pc' = "freed") =>
        /\ Len(ObjectList(vm)) = Len(vm.heap)
        /\ vm'.released = ObjectList(vm)
        /\ \A o \in DOMAIN vm.heap :
               /\ vm'.released[Len(vm.heap) + 1 - o] = o
               /\ vm'.heap[o] = Freed

C19_ObjectList ==
    /\ []ObjectsLinked
    /\ [][AllocationPrepends /\ TeardownStep]_vars

\* freeVM() has run on a heap that held objects of all six types.
C19_Witness ==
    /\ pc = "freed"
    /\ Len(vm.released) = Len(vm.heap)
    /\ hist.source = "subscr" /\ hist.after = "INTERPRET_OK"
    /\ \E o \in DOMAIN hist.written : TRUE

(***************************************************************************)
(* C20.  OP_GET_GLOBAL of a name pushes the value that the last            *)
(* OP_DEFINE_GLOBAL or successful OP_SET_GLOBAL of that name bound to it,  *)
(* in this interpret() call or in an earlier one, however that one ended   *)
(* (hist.bound); if the name was never bound it raises "Undefined          *)
(* variable" with the name.  OP_DEFINE_GLOBAL binds the name to the top    *)
(* of the stack, whether or not it had a binding, leaves the other         *)
(* bindings, raises no error and lowers the stack depth by one.            *)
(***************************************************************************)
GetGlobalStep ==
    LET chars == vm.heap[READ_STRING].chars
    IN IF chars \in DOMAIN hist.bound
       THEN /\ pc' = "running"
            /\ vm'.stackTop = vm.stackTop + 1
            /\ peek(vm', 0) = hist.bound[chars]
       ELSE /\ Raised("Undefined variable '%s'")
            /\ stderr'.args = <<chars>>

DefineGlobalStep ==
    LET name == READ_STRING
    IN /\ pc' = "running"
       /\ vm'.stackTop = vm.stackTop - 1
       /\ DOMAIN vm'.globals = DOMAIN vm.globals \cup {name}
       /\ vm'.globals[name] = peek(vm, 0)
       /\ \A k \in DOMAIN vm.globals \ {name} : vm'.globals[k] = vm.globals[k]

C20_Globals ==
    [][/\ (Running /\ Byte(0) = "OP_GET_GLOBAL") => GetGlobalStep
       /\ (Running /\ Byte(0) = "OP_DEFINE_GLOBAL") => DefineGlobalStep]_vars

\* The source "clobber", run after an interpret() call that ended in a
\* runtime error, has just read the global s, which that call had bound to
\* a closure before it failed.
C20_Witness ==
    /\ Running /\ hist.source = "clobber"
    /\ hist.after = "INTERPRET_RUNTIME_ERROR"
    /\ ip = 6 /\ vm.frameCount = 1
    /\ IS_CLOSURE(vm, peek(vm, 0))
    /\ peek(vm, 0) = hist.bound["s"]

\* What OP_CLOSURE does in one step: function is its constant operand and
\* pair i is the bytes (isLocal, index) at offsets 2 + 2i and 3 + 2i.
ClosureStep ==
    LET function == AS_OBJ(READ_CONSTANT)
        n == vm.heap[function].upvalueCount
        cl == AS_OBJ(peek(vm', 0))
        fresh == (Len(vm.heap) + 1)..Len(vm'.heap)
    IN /\ pc' = "running"
       /\ vm'.stackTop = vm.stackTop + 1
       /\ \A k \in 0..(vm.stackTop - 1) : vm'.stack[k] = vm.stack[k]
       /\ IS_CLOSURE(vm', peek(vm', 0))
       /\ {o \in fresh : vm'.heap[o].type = "OBJ_CLOSURE"} = {cl}
       /\ vm'.heap[cl].function = function
       /\ vm'.heap[cl].upvalueCount = n
       /\ DOMAIN vm'.heap[cl].upvalues = 1..n
       /\ \A i \in 0..(n - 1) :
             LET entry == vm'.heap[cl].upvalues[i + 1]
                 isLocal == Byte(2 + 2 * i)
                 index == Byte(3 + 2 * i)
             IN /\ entry # NULL
                /\ vm'.heap[entry].type = "OBJ_UPVALUE"
                /\ IF isLocal # 0
                   THEN /\ vm'.heap[entry].location =
                               StackSlot(frame.slots + index)
                        /\ entry \in OpenSet(vm')
                   ELSE entry = vm.heap[frame.closure].upvalues[index + 1]
       /\ ip' = ip + 2 + 2 * n

\* C21: OP_CLOSURE pushes exactly one new closure, of the function operand,
\* with function.upvalueCount upvalue entries, none of them NULL: entry i is
\* the open upvalue of slot frame base + index when pair i is local, and the
\* current closure's upvalue at index otherwise; ip has moved past the
\* operand and the 2 * upvalueCount pair bytes.
C21_Closure ==
    [][(Running /\ Byte(0) = "OP_CLOSURE") => ClosureStep]_vars

\* mid() has just made the closure of inner, whose one pair is (0, 1): its
\* upvalue is the second upvalue of mid's closure, open on slot 2 of outer.
C21_Witness ==
    /\ Running /\ hist.source = "nest" /\ vm.frameCount = 3
    /\ ip = 7
    /\ IS_CLOSURE(vm, peek(vm, 0))
    /\ vm.heap[AS_OBJ(peek(vm, 0))].upvalueCount = 1
    /\ vm.heap[AS_OBJ(peek(vm, 0))].upvalues[1] =
           vm.heap[frame.closure].upvalues[2]
    /\ vm.heap[frame.closure].upvalues[1] # vm.heap[frame.closure].upvalues[2]
    /\ IsOpen(vm, vm.heap[AS_OBJ(peek(vm, 0))].upvalues[1])

StoreSubscr == Running /\ Byte(0) = "OP_STORE_SUBSCR"

\* What the step does for the stack ending in target, index, item: the
\* store at a whole index within 0..count-1, the error otherwise.
StoreSubscrStep ==
    LET item == peek(vm, 0)
        index == peek(vm, 1)
        target == peek(vm, 2)
        L == AS_OBJ(target)
        d == AS_NUMBER(index)
        unchanged == \A l \in ListObjects(vm) :
                        /\ vm'.heap[l].count = vm.heap[l].count
                        /\ vm'.heap[l].items = vm.heap[l].items
    IN IF IS_LIST(vm, target) /\ IS_NUMBER(index)
       THEN /\ \A i \in 0..(vm.heap[L].count - 1) :
                   d = FromInt(i) =>
                       /\ pc' = "running"
                       /\ vm'.heap[L].count = vm.heap[L].count
                       /\ vm'.heap[L].items[i + 1] = item
                       /\ \A j \in 1..vm.heap[L].count :
                              j # i + 1 =>
                                  vm'.heap[L].items[j] = vm.heap[L].items[j]
                       /\ vm'.stackTop = vm.stackTop - 2
                       /\ peek(vm', 0) = item
            /\ (d < FromInt(0) \/ d >= FromInt(vm.heap[L].count)) =>
                   /\ result' = "INTERPRET_RUNTIME_ERROR"
                   /\ unchanged
       ELSE /\ result' = "INTERPRET_RUNTIME_ERROR"
            /\ unchanged

\* C22: OP_STORE_SUBSCR with a valid index stores item at that index, keeps
\* the count and the other items, and leaves item on top two slots lower;
\* with a target that is no list, an index that is no number or an index
\* out of range it raises a runtime error and changes no list.
C22_StoreSubscr == [][StoreSubscr => StoreSubscrStep]_vars

\* The same with the doubles strictly between -1 and 0 left out of the
\* out-of-range case: it holds of every step.
StoreSubscrStepWhole ==
    \/ /\ IS_NUMBER(peek(vm, 1))
       /\ AS_NUMBER(peek(vm, 1)) > FromInt(-1)
       /\ AS_NUMBER(peek(vm, 1)) < FromInt(0)
    \/ StoreSubscrStep

StoreAtWholeIndexes == [][StoreSubscr => StoreSubscrStepWhole]_vars

\* What OP_ADD does in one step, by the types of the upper operand peek(0)
\* and the lower operand peek(1).
AddStep ==
    LET upper == peek(vm, 0)
        lower == peek(vm, 1)
        sum == peek(vm', 0)
        chars == vm.heap[AS_OBJ(lower)].chars \o vm.heap[AS_OBJ(upper)].chars
    IN IF IS_STRING(vm, upper) /\ IS_STRING(vm, lower)
       THEN /\ pc' = "running" /\ ip' = ip + 1
            /\ vm'.stackTop = vm.stackTop - 1
            /\ IS_STRING(vm', sum)
            /\ vm'.heap[AS_OBJ(sum)].chars = chars
            /\ vm'.heap[AS_OBJ(sum)].length = Len(chars)
            /\ AS_OBJ(sum) \in vm'.strings
            /\ \A s \in vm.strings :
                   vm.heap[s].chars = chars => AS_OBJ(sum) = s
       ELSE IF IS_NUMBER(upper) /\ IS_NUMBER(lower)
       THEN /\ pc' = "running" /\ ip' = ip + 1
            /\ vm'.stackTop = vm.stackTop - 1
            /\ sum = NUMBER_VAL(AS_NUMBER(lower) + AS_NUMBER(upper))
       ELSE Raised("Operands must be two numbers or two strings")

\* C23: OP_ADD on two strings replaces them with the interned string of the
\* lower operand's characters followed by the upper operand's; on two
\* numbers it replaces them with their sum; on any other pair of operands
\* it raises a runtime error; a successful step lowers the cursor by one and
\* leaves the slots below the operands unchanged.
C23_Add ==
    [][(Running /\ Byte(0) = "OP_ADD") =>
           /\ AddStep
           /\ pc' = "running" =>
                  \A k \in 0..(vm.stackTop - 3) : vm'.stack[k] = vm.stack[k]]_vars

\* The source "concat" has just added "a" and "b": the top of the stack is
\* the string "ab" that the global k was bound to.
C23_Witness ==
    /\ Running /\ hist.source = "concat" /\ ip = 11
    /\ IS_STRING(vm, peek(vm, 0))
    /\ vm.heap[AS_OBJ(peek(vm, 0))].chars = "ab"
    /\ peek(vm, 0) = vm.globals[READ_STRING]

\* C24: OP_JUMP_IF_FALSE changes neither the stack nor its cursor; ip moves
\* to the byte after the two operand bytes, and from there by the operand
\* read as a 16-bit big-endian number exactly when the top value is nil or
\* false.
C24_JumpIfFalse ==
    [][(Running /\ Byte(0) = "OP_JUMP_IF_FALSE") =>
           /\ pc' = "running"
           /\ vm'.stackTop = vm.stackTop
           /\ vm'.stack = vm.stack
           /\ peek(vm', 0) = peek(vm, 0)
           /\ IF peek(vm, 0) = NIL_VAL \/ peek(vm, 0) = BOOL_VAL(FALSE)
              THEN ip' = ip + 3 + 256 * Byte(1) + Byte(2)
              ELSE ip' = ip + 3]_vars

\* The first interpret() call runs "truthy" and has just tested the empty
\* string, which did not jump: nil jumped over the 260 bytes of line 1,
\* false jumped over println(2), and 0 did not jump over println(3).
C24_Witness ==
    /\ Running /\ hist.source = "truthy" /\ runs = 1
    /\ ip = 307
    /\ IS_STRING(vm, peek(vm, 0))
    /\ vm.heap[AS_OBJ(peek(vm, 0))].chars = ""
    /\ stdout = << <<NUMBER_VAL(FromInt(3))>> >>

\* The upvalues of machine m that point at their own closed field.
ClosedUpvalues(m) ==
    {u \in 1..Len(m.heap) : m.heap[u].type = "OBJ_UPVALUE" /\ IsClosed(m, u)}

\* A step of run() or interpret() leaves every closed upvalue closed and off
\* the open list, and OP_CLOSURE puts no closed upvalue in a local entry.
ClosedStaysClosed ==
    LET closed == ClosedUpvalues(vm)
        open == OpenSet(vm')
    IN /\ \A u \in closed : IsClosed(vm', u) /\ u \notin open
       /\ (Running /\ Byte(0) = "OP_CLOSURE") =>
              \A i \in 0..(vm.heap[AS_OBJ(READ_CONSTANT)].upvalueCount - 1) :
                  Byte(2 + 2 * i) # 0 =>
                      vm'.heap[AS_OBJ(peek(vm', 0))].upvalues[i + 1]
                          \notin closed

\* C25: closing is irreversible.  Once an upvalue points at its own closed
\* field, no instruction, call, return, capture or closeUpvalues makes it
\* point at a stack slot again or links it in the open list, and a capture
\* of the same slot number by a later activation yields another upvalue
\* object.
C25_ClosedForGood ==
    /\ [](pc # "freed" =>
             \A p, q \in hist.captures :
                 (p.slot = q.slot /\ p.act # q.act /\ IsClosed(vm, Held(p)))
                 => Held(p) # Held(q))
    /\ [][pc' # "freed" => ClosedStaysClosed]_vars

\* A later activation has captured the slot number of an upvalue that an
\* earlier activation's return closed: the two closures hold different
\* upvalues, the earlier one closed and off the list, the later one open.
C25_Witness ==
    /\ Running
    /\ \E p, q \in hist.captures :
           /\ p.slot = q.slot /\ p.act < q.act
           /\ IsClosed(vm, Held(p)) /\ Held(p) \notin OpenSet(vm)
           /\ IsOpen(vm, Held(q)) /\ Held(q) \in OpenSet(vm)
           /\ Held(p) # Held(q)

\* The code of the function that frame i runs.
FrameCode(i) == vm.heap[vm.heap[vm.frames[i].closure].function].chunk.code

\* C26: while frames are active, frame 0 is based at the stack base, each
\* frame's base is above the base of the frame below it and below the stack
\* cursor, and each frame below the top has as saved ip the offset just
\* after the operand of the OP_CALL it is waiting on.
C26_Frames ==
    vm.frameCount >= 1 =>
        /\ vm.frames[0].slots = 0
        /\ \A i \in 1..(vm.frameCount - 1) :
               vm.frames[i].slots > vm.frames[i - 1].slots
        /\ \A i \in 0..(vm.frameCount - 1) : vm.frames[i].slots < vm.stackTop
        /\ \A i \in 0..(vm.frameCount - 2) :
               /\ vm.frames[i].ip = hist.site[i] + 2
               /\ FrameCode(i)[hist.site[i] + 1] = "OP_CALL"

\* Three frames are active; the middle one waits on a call that is not the
\* first instruction of its function and that passed arguments.
C26_Witness ==
    /\ Running /\ vm.frameCount >= 3
    /\ vm.frames[1].ip = hist.site[1] + 2
    /\ hist.site[1] > 0
    /\ FrameCode(1)[hist.site[1] + 2] > 0
    /\ vm.frames[2].slots > vm.frames[1].slots + 1

====
